---- MODULE Spec2Model ----
(***************************************************************************)
(* The WMA v1/v2 packet decoder of src/sound/decoders/wma.cpp              *)
(* (class Sound::WMACodec) as a state machine.                             *)
(*                                                                         *)
(* The state is the decoder object's fields, the locals of the queuePacket *)
(* call in progress, and the PCM sink.  One queuePacket call is the action *)
(* QueuePacket (entry, header, overhang append) followed by one            *)
(* DecodeBlock step per decodeBlock() call; the step that ends the call    *)
(* also does everything the code does after its last block (PCM            *)
(* conversion, saving the new overhang, enqueueing), so a call is never    *)
(* left half done: while pc = "block" only DecodeBlock is enabled.         *)
(*                                                                         *)
(* The bits of a packet are drawn when they are read: a header field or a  *)
(* block-length index is any value of its width, and the entropy-coded     *)
(* body of a block (gain, noise flags, exponents, run-level coefficients)  *)
(* is abstracted to the number of bits it consumes and whether one of its  *)
(* decoders returned false.  Positions and sizes are exact integers.       *)
(***************************************************************************)
EXTENDS Integers, Naturals, Sequences, FiniteSets, TLC

\* ------------------------------------------------------------------------
\* Program constants (class WMACodec)
\* ------------------------------------------------------------------------
kChannelsMax == 2
kBlockBitsMin == 7
kBlockBitsMax == 11
kBlockNBSizes == kBlockBitsMax - kBlockBitsMin + 1
kSuperframeSizeMax == 16384
kNoiseTabSize == 8192

\* ARRAYSIZE(powTab): the entries of powTab, lines 1341-1420
powTabSize == 156

\* sizeof(_lastSuperframe): byte _lastSuperframe[kSuperframeSizeMax + 4]
LastSuperframeBytes == kSuperframeSizeMax + 4

\* ------------------------------------------------------------------------
\* Bounds of the model
\* ------------------------------------------------------------------------
\* queuePacket calls per behaviour
MaxPackets == 2
\* queuePacket calls on a stream without bit reservoir
MaxStreamPackets == 3
\* largest value of the 4-bit frame-count field that is drawn (0 .. 15 exist)
MaxFrameField == 2
\* bits of the coded body of a block with a channel present
MaxBodyBits == 21
\* length of the coefficient vectors the butterfly is applied to
MaxVecLen == 2
\* largest magnitude of a coefficient drawn for the butterfly
MaxCoef == 1
\* butterflyFloats calls in a row on the same pair of vectors
MaxButterflies == 2
\* SpecReservoir: bytes of the packet that leaves an overhang, the most bits
\* it leaves unread, and the largest bitOffset of the packet after it
PrevPacketBytes == 4
MaxTailBits == 17
MaxJoinBits == 17
\* decodeExponents calls in a row
MaxExpCalls == 2
\* exponent bands decodeExpHuffman is followed for
MaxExpBands == 3
\* numCoefs of the decodeRunLevel call that is followed
MaxRunCoefs == 4
\* largest bit position at which a channel's coefficients end
MaxAlignPos == 9

\* ------------------------------------------------------------------------
\* Small arithmetic helpers
\* ------------------------------------------------------------------------
RECURSIVE Pow2(_)
Pow2(n) == IF n <= 0 THEN 1 ELSE 2 * Pow2(n - 1)

\* line 127: 1 << kBlockBitsMax
kBlockSizeMax == Pow2(kBlockBitsMax)

\* Common::intLog2 (src/common/maths.h): floor(log2(v)), -1 for v <= 0
RECURSIVE intLog2(_)
intLog2(v) == IF v <= 0 THEN -1 ELSE IF v = 1 THEN 0 ELSE 1 + intLog2(v \div 2)

MIN(a, b) == IF a < b THEN a ELSE b

\* (flags & mask) != 0 for a one-bit mask 2^bit
FlagBit(flags, bit) == (flags \div Pow2(bit)) % 2 = 1

\* ------------------------------------------------------------------------
\* Construction: WMACodec::WMACodec and WMACodec::init
\* ------------------------------------------------------------------------
\* The constructor's arguments.  extraData is its size and the two
\* little-endian u16 words init reads from it (offsets 2 and 4).
CtorArgs ==
  { \* v2 16 kHz mono 16 kbit/s: Huffman exponents, bit reservoir, variable blocks
    [version |-> 2, sampleRate |-> 16000, channels |-> 1, bitRate |-> 16000,
     blockAlign |-> 12, extraSize |-> 6, extra2 |-> 0, extra4 |-> 7],
    \* v2 8 kHz stereo 16 kbit/s: no bit reservoir, variable blocks
    [version |-> 2, sampleRate |-> 8000, channels |-> 2, bitRate |-> 16000,
     blockAlign |-> 6, extraSize |-> 6, extra2 |-> 0, extra4 |-> 13],
    \* v1 44.1 kHz stereo 128 kbit/s: bit reservoir, fixed blocks
    [version |-> 1, sampleRate |-> 44100, channels |-> 2, bitRate |-> 128000,
     blockAlign |-> 0, extraSize |-> 4, extra2 |-> 3, extra4 |-> 0],
    \* v1 8 kHz mono 4 kbit/s: no bit reservoir, fixed blocks
    [version |-> 1, sampleRate |-> 8000, channels |-> 1, bitRate |-> 4000,
     blockAlign |-> 4, extraSize |-> 4, extra2 |-> 1, extra4 |-> 0],
    \* v2 16 kHz mono 8 kbit/s, 8 bytes of extra data with 0x000D at offset 4:
    \* the variable-block flag is set and evalFlags clears it
    [version |-> 2, sampleRate |-> 16000, channels |-> 1, bitRate |-> 8000,
     blockAlign |-> 4, extraSize |-> 8, extra2 |-> 0, extra4 |-> 13] }

\* The arguments construction is tried with: every side of every check of
\* the constructor, the sample rates around the steps of getFrameBitLength,
\* and flag words with and without variable block lengths
WideArgs ==
  [version : {0, 1, 2, 3},
   sampleRate : {0, 8000, 16000, 16001, 22050, 22051, 32000, 32001,
                 44100, 48000, 50000, 50001},
   channels : {0, 1, 2, 3},
   bitRate : {4000, 63999, 64000},
   blockAlign : {0},
   extraSize : {0, 4, 6, 8},
   extra2 : {0, 29},
   extra4 : {5, 13, 29}]

\* Accepted without the upper bound on the channel count (a variant of the
\* code, used to show that a property depends on that check)
AcceptedAnyChannels(a) ==
  /\ a.version = 1 \/ a.version = 2
  /\ ~(a.sampleRate = 0 \/ a.sampleRate > 50000)
  /\ a.channels # 0

\* WMACodec::WMACodec, lines 307-314: the three checks that throw
Accepted(a) ==
  /\ a.version = 1 \/ a.version = 2
  /\ ~(a.sampleRate = 0 \/ a.sampleRate > 50000)
  /\ ~(a.channels = 0 \/ a.channels > kChannelsMax)

getFlags(a) ==
  IF a.version = 1 /\ a.extraSize >= 4 THEN a.extra2
  ELSE IF a.version = 2 /\ a.extraSize >= 6 THEN a.extra4
  ELSE 0

\* evalFlags without lines 389-396 (a variant of the code)
evalFlagsAsGiven(a, flags) ==
  [useExpHuffman |-> FlagBit(flags, 0),
   useBitReservoir |-> FlagBit(flags, 1),
   useVariableBlockLen |-> FlagBit(flags, 2)]

\* evalFlags: the three flag bits, and the 0x000D quirk that forces
\* variable block lengths off
evalFlags(a, flags) ==
  LET variable == FlagBit(flags, 2)
      quirk == a.version = 2 /\ a.extraSize >= 8 /\ a.extra4 = 13 /\ variable
  IN [useExpHuffman |-> FlagBit(flags, 0),
      useBitReservoir |-> FlagBit(flags, 1),
      useVariableBlockLen |-> variable /\ ~quirk]

\* getFrameBitLength without the version-1 clause of its second step (a
\* variant of the code)
getFrameBitLengthAnyVersion(version, sampleRate) ==
  IF sampleRate <= 16000 THEN 9
  ELSE IF sampleRate <= 22050 THEN 10
  ELSE IF sampleRate <= 48000 THEN 11
  ELSE IF sampleRate <= 96000 THEN 12
  ELSE 13

\* WMACodec::getFrameBitLength
getFrameBitLength(version, sampleRate) ==
  IF sampleRate <= 16000 THEN 9
  ELSE IF sampleRate <= 22050 \/ (sampleRate <= 32000 /\ version = 1) THEN 10
  ELSE IF sampleRate <= 48000 THEN 11
  ELSE IF sampleRate <= 96000 THEN 12
  ELSE 13

\* getBlockSizeCount without the clamp to frameLenBits - kBlockBitsMin (a
\* variant of the code)
getBlockSizeCountUnclamped(a, flags, variable, flb) ==
  IF ~variable THEN 1
  ELSE LET c0 == ((flags \div 8) % 4) + 1
       IN (IF (a.bitRate \div a.channels) >= 32000 THEN c0 + 2 ELSE c0) + 1

\* WMACodec::getBlockSizeCount
getBlockSizeCount(a, flags, variable, flb) ==
  IF ~variable THEN 1
  ELSE LET c0 == ((flags \div 8) % 4) + 1
           count == IF (a.bitRate \div a.channels) >= 32000 THEN c0 + 2 ELSE c0
           maxCount == flb - kBlockBitsMin
       IN MIN(count, maxCount) + 1

\* init, line 344: intLog2((int) (bps * frameLen / 8.0 + 0.05)) + 2 with
\* bps = bitRate / (channels * sampleRate), in exact rational arithmetic
\* (frameLen is a multiple of 8, and 0.05 is 1/20)
getByteOffsetBits(a, flen) ==
  LET den == a.channels * a.sampleRate
  IN intLog2((20 * a.bitRate * (flen \div 8) + den) \div (20 * den)) + 2

getNormalizedSampleRate(version, sampleRate) ==
  IF version # 2 THEN sampleRate
  ELSE IF sampleRate >= 44100 THEN 44100
  ELSE IF sampleRate >= 22050 THEN 22050
  ELSE IF sampleRate >= 16000 THEN 16000
  ELSE IF sampleRate >= 11025 THEN 11025
  ELSE IF sampleRate >= 8000 THEN 8000
  ELSE sampleRate

\* WMACodec::useNoiseCoding: the return value.  bpsOrig = bitRate / (channels *
\* sampleRate); bps = bpsOrig * 1.6 for two channels; a threshold t is
\* given in hundredths (bps >= 0.61 is GE(.., 61)).
chooseNoiseCoding(a) ==
  LET den == a.channels * a.sampleRate
      origGT(t) == 100 * a.bitRate > t * den
      bpsGE(t) == IF a.channels = 2 THEN 160 * a.bitRate >= t * den
                  ELSE 100 * a.bitRate >= t * den
      rate == getNormalizedSampleRate(a.version, a.sampleRate)
  IN IF rate = 44100 THEN ~bpsGE(61)
     ELSE IF rate = 22050 THEN ~bpsGE(116)
     ELSE IF rate = 16000 THEN TRUE
     ELSE IF rate = 11025 THEN TRUE
     ELSE IF rate = 8000 THEN ~origGT(75)
     ELSE TRUE

\* WMACodec::useNoiseCoding: highFreq on return, as the fraction <<p, q>> of
\* sampleRate * 0.5 it is set to (1 when it is left alone)
highFreqFactor(a) ==
  LET den == a.channels * a.sampleRate
      origGT(t) == 1000 * a.bitRate > t * den
      origGE(t) == 1000 * a.bitRate >= t * den
      bpsGE(t) == IF a.channels = 2 THEN 1600 * a.bitRate >= t * den
                  ELSE 1000 * a.bitRate >= t * den
      rate == getNormalizedSampleRate(a.version, a.sampleRate)
  IN IF rate = 44100 THEN (IF bpsGE(610) THEN <<1, 1>> ELSE <<2, 5>>)
     ELSE IF rate = 22050
       THEN (IF bpsGE(1160) THEN <<1, 1>>
             ELSE IF bpsGE(720) THEN <<7, 10>> ELSE <<3, 5>>)
     ELSE IF rate = 16000 THEN (IF origGT(500) THEN <<1, 2>> ELSE <<3, 10>>)
     ELSE IF rate = 11025 THEN <<7, 10>>
     ELSE IF rate = 8000
       THEN (IF origGT(750) THEN <<1, 1>>
             ELSE IF ~origGT(625) THEN <<1, 2>> ELSE <<13, 20>>)
     ELSE IF origGE(800) THEN <<3, 4>>
     ELSE IF origGE(600) THEN <<3, 5>>
     ELSE <<1, 2>>

\* wmaCriticalFreqs (src/sound/decoders/wmadata.h): the 25 Bark critical
\* frequencies, in Hz
wmaCriticalFreqs ==
  <<100, 200, 300, 400, 510, 630, 770, 920, 1080, 1270, 1480, 1720, 2000,
    2320, 2700, 3150, 3700, 4400, 5300, 6400, 7700, 9500, 12000, 15500, 24500>>

\* evalMDCTScales, lines 528-546: the band sizes the version-1 loop stores
\* from critical frequency i on (1-based), lpos being the last position
RECURSIVE bandsV1(_, _, _, _)
bandsV1(blockLen, rate, i, lpos) ==
  IF i > Len(wmaCriticalFreqs) THEN << >>
  ELSE LET pos == MIN(((blockLen * 2 * wmaCriticalFreqs[i]) + (rate \div 2)) \div rate,
                      blockLen)
       IN IF pos >= blockLen THEN <<pos - lpos>>
          ELSE <<pos - lpos>> \o bandsV1(blockLen, rate, i + 1, pos)

\* evalMDCTScales, lines 571-591: the band sizes the version-2 loop stores
RECURSIVE bandsV2(_, _, _, _)
bandsV2(blockLen, rate, i, lpos) ==
  IF i > Len(wmaCriticalFreqs) THEN << >>
  ELSE LET pos == MIN((((blockLen * 2 * wmaCriticalFreqs[i]) + (rate * 2))
                         \div (4 * rate)) * 4,
                      blockLen)
           stored == IF pos > lpos THEN <<pos - lpos>> ELSE << >>
       IN IF pos >= blockLen THEN stored
          ELSE stored \o bandsV2(blockLen, rate, i + 1, pos)

\* evalMDCTScales, lines 552-560: a hardcoded table is used for row k
hasBandTable(version, rate, flb, k) ==
  version = 2 /\ flb - kBlockBitsMin - k < 3 /\ rate >= 22050

\* evalMDCTScales: the members it leaves for the rows 0 .. blockSizeCount - 1.
\* A row of exponentBands is [from, bands]: "computed" by one of the loops,
\* copied from a "table" of wmadata.h (its contents are not modelled), or
\* "unwritten" (no statement of init stores into it).  The version-1 branch
\* stores into row 0 on every pass of the loop over k (lines 538 and 546),
\* so row 0 ends as the bands of the last pass.
evalMDCTScales(version, rate, flb, bsc, factor) ==
  LET flen == Pow2(flb)
      rows == 0 .. bsc - 1
      blockLenOf(k) == flen \div Pow2(k)
  IN [exponentBands |->
        [k \in rows |->
           IF version = 1
             THEN IF k = 0
                    THEN [from |-> "computed",
                          bands |-> bandsV1(blockLenOf(bsc - 1), rate, 1, 0)]
                    ELSE [from |-> "unwritten", bands |-> << >>]
           ELSE IF hasBandTable(version, rate, flb, k)
             THEN [from |-> "table", bands |-> << >>]
           ELSE [from |-> "computed", bands |-> bandsV2(blockLenOf(k), rate, 1, 0)]],
      \* line 597
      coefsEnd |-> [k \in rows |-> (flen - ((flen * 9) \div 100)) \div Pow2(k)],
      \* line 600: (int) (blockLen * 2 * highFreq / sampleRate + 0.5), with
      \* highFreq = sampleRate * 0.5 * p / q
      highBandStart |->
        [k \in rows |-> (2 * blockLenOf(k) * factor[1] + factor[2]) \div (2 * factor[2])]]

\* WMACodec::init: the members it computes from the constructor's arguments
construct(a) ==
  LET flags == getFlags(a)
      f == evalFlags(a, flags)
      flb == getFrameBitLength(a.version, a.sampleRate)
      bsc == getBlockSizeCount(a, flags, f.useVariableBlockLen, flb)
      scales == evalMDCTScales(a.version, a.sampleRate, flb, bsc, highFreqFactor(a))
  IN [useExpHuffman |-> f.useExpHuffman,
      useBitReservoir |-> f.useBitReservoir,
      useVariableBlockLen |-> f.useVariableBlockLen,
      frameLenBits |-> flb,
      frameLen |-> Pow2(flb),
      blockSizeCount |-> bsc,
      byteOffsetBits |-> getByteOffsetBits(a, Pow2(flb)),
      useNoiseCoding |-> chooseNoiseCoding(a),
      exponentBands |-> scales.exponentBands,
      coefsEnd |-> scales.coefsEnd,
      highBandStart |-> scales.highBandStart]

\* The values an int member holds when no constructor or init code writes it
Indeterminate == {-1, 0, 8192}


\* ------------------------------------------------------------------------
\* State
\* ------------------------------------------------------------------------
VARIABLES
  \* stream configuration (set by the constructor, never written again)
  version, sampleRate, channels, bitRate, blockAlign,
  useExpHuffman, useBitReservoir, useVariableBlockLen, useNoiseCoding,
  frameLenBits, frameLen, blockSizeCount, byteOffsetBits,
  extraData,      \* the constructor's extraData: its size and the u16 words
                  \* at offsets 2 and 4
  exponentBands, coefsEnd, highBandStart,   \* rows 0 .. blockSizeCount - 1
  \* decoder fields written while decoding
  resetBlockLengths, curFrame, framePos, curBlock,
  blockLen, blockLenBits, nextBlockLenBits, prevBlockLenBits,
  noiseIndex, lastSuperframeLen, lastBitoffset,
  \* _audStream: the queued PCM buffers, each as its number of samples
  audStream,
  \* the queuePacket call in progress
  pc,             \* "idle", "block" (about to call decodeBlock), "corrupt";
                  \* "new" (constructor entered), "thrown" (it threw);
                  \* "coefs" (decodeChannels at line 996);
                  \* "save" (decodeSuperFrame at line 848), "saved" (at
                  \* line 806 of the next call), "joined" (at line 832);
                  \* "exponents" (decodeChannels at line 986);
                  \* "huffman" (decodeExponents at line 1167);
                  \* "runlevel" (decodeSpectralCoef at line 1193)
  src,            \* the stream the current frame is read from: "data" / "last"
  dataSize,       \* data.size(), bytes
  bitsPos,        \* bits.pos()
  lastBitsPos,    \* lastBits.pos()
  newFrameCount, outputDataSize,
  bitOffset,      \* the bitOffset field as read at line 801
  i,              \* the frame loop's counter (line 844)
  pcmWritten,     \* samples floatToInt16Interleave has stored in outputData
  \* _coefs[0] and _coefs[1] around butterflyFloats (line 1005)
  coefs0,         \* the pair before the first call
  coefs,          \* the pair now
  nButterfly,     \* calls made on it
  \* the bytes of the bit reservoir (followed bit by bit in SpecReservoir)
  lastSuperframe, \* _lastSuperframe[0 .. _lastSuperframeLen): a sequence of
                  \* bytes, each a sequence of 8 bits, most significant first
  tailBits,       \* remainingBits (line 849) of the packet that left them
  overhangStream, \* the bits lastBits yields after skip(_lastBitoffset)
  \* decodeExponents (followed in SpecExponents); the arrays are indexed by
  \* channel, 0 .. kChannelsMax - 1
  hasChannel,     \* the hasChannel argument of the last call
  exponentsBSize, \* _exponentsBSize
  exponentsGen,   \* how often _exponents[ch] was written (its contents are
                  \* not modelled)
  maxExponentGen, \* how often _maxExponent[ch] was written
  expFlag,        \* the reuse flag the last call read: 0, 1, or -1 when
                  \* it read none
  expCalls,       \* decodeExponents calls so far
  expResult,      \* what the last call returned
  \* decodeExpHuffman (followed in SpecExpHuffman)
  lastExp,        \* its local lastExp
  expBand,        \* bands stored into _exponents[ch] so far
  expStatus,      \* "start"; "run" (in the loop); "invalid" (line 1460) and
                  \* "range" (line 1467): returned false
  \* decodeRunLevel (followed in SpecRunLevel)
  rlVersion,      \* its version argument
  rlCoefBits,     \* its coefNbBits argument
  rlOffset,       \* its offset
  rlStatus,       \* "idle" (not called), "run" (in the loop), "eob" and
                  \* "end" (returned true), "broken" (returned false),
                  \* "aligned" (lines 1199-1200 are done), "thrown" (the
                  \* skip of line 1200 ran off the stream)
  rlBranch,       \* how the last symbol was decoded: "none", "normal",
                  \* "eob", "fixed" (escape, lines 1569-1571) or "prefix"
                  \* (escape, lines 1574-1587)
  rlBits,         \* bits read for it after the Huffman code
  rlBlockLen,     \* its blockLen argument
  rlWrite,        \* index of ptr the last symbol stored to, -1 for none
  rlResult,       \* "pending" until it returns, then "true" or "false"
  rlPosBefore,    \* bits.pos() when the call has returned, -1 before
  rlPosAfter,     \* bits.pos() after line 1200, -1 before
  \* bookkeeping about the calls (not program state)
  nPackets,       \* queuePacket calls so far
  result,         \* how the last finished call ended
  frameFailed,    \* some decodeFrame of the current/last call returned false
  entryLastLen,   \* _lastSuperframeLen when the current/last call began
  prevDropped,    \* the call before the current/last one enqueued nothing
  regWritten,     \* blockLenBits and nextBlockLenBits were written by this call
  blockOutcome,   \* how the last decodeBlock call ended: "badLength"
                  \* (evalBlockLength returned false), "fail" (decodeChannels
                  \* did), "eos", "more", "done"; "none" before the first
  lengthBitsUsed, \* bits the last evalBlockLength call consumed
  fallStart,      \* first index of _frameOut[c], as it lies now, that the
                  \* last decodeBlock call wrote through the falling window
  fallLen         \* floats it wrote so; 0 when the last call did not window

config == <<version, sampleRate, channels, bitRate, blockAlign,
            useExpHuffman, useBitReservoir, useVariableBlockLen, useNoiseCoding,
            frameLenBits, frameLen, blockSizeCount, byteOffsetBits,
            extraData, exponentBands, coefsEnd, highBandStart>>
register == <<resetBlockLengths, blockLen, blockLenBits, nextBlockLenBits,
              prevBlockLenBits>>
overhang == <<lastSuperframeLen, lastBitoffset>>
locals == <<src, dataSize, bitsPos, lastBitsPos, newFrameCount, outputDataSize, i,
            pcmWritten, bitOffset>>
\* what the specifications of a single function follow
butterflyVars == <<coefs0, coefs, nButterfly>>
reservoirVars == <<lastSuperframe, tailBits, overhangStream>>
exponentVars == <<hasChannel, exponentsBSize, exponentsGen, maxExponentGen,
                  expFlag, expCalls, expResult>>
huffmanVars == <<lastExp, expBand, expStatus>>
runLevelVars == <<rlVersion, rlCoefBits, rlOffset, rlStatus, rlBranch, rlBits,
                  rlBlockLen, rlWrite, rlResult, rlPosBefore, rlPosAfter>>
algebra == <<butterflyVars, reservoirVars, exponentVars, huffmanVars,
             runLevelVars>>
history == <<nPackets, result, frameFailed, entryLastLen, prevDropped, regWritten,
             blockOutcome, lengthBitsUsed, fallStart, fallLen>>
vars == <<config, register, overhang, curFrame, framePos, curBlock, noiseIndex,
          audStream, pc, locals, algebra, history>>

\* How a call can end.  "queued": a PCM buffer went to the sink.  The others
\* enqueue nothing: "tooSmall" (line 760), "badCount" (line 782),
\* "frameError" (line 846 / 879), "readError" (a read past the end of the
\* stream), "corrupt" (a write past the end of _lastSuperframe).
Dropped == {"tooSmall", "badCount", "frameError", "readError"}

\* the members the constructor's initialiser list sets (lines 297-302), the
\* locals of a call that has not begun, and the bookkeeping
Fresh ==
  /\ resetBlockLengths = TRUE
  /\ curFrame = 0 /\ framePos = 0 /\ curBlock = 0
  /\ blockLen = 0 /\ blockLenBits = 0
  /\ nextBlockLenBits = 0 /\ prevBlockLenBits = 0
  /\ lastSuperframeLen = 0 /\ lastBitoffset = 0
  /\ audStream = << >>
  /\ src = "data"
  /\ dataSize = 0 /\ bitsPos = 0 /\ lastBitsPos = 0
  /\ newFrameCount = 0 /\ outputDataSize = 0 /\ i = 0 /\ pcmWritten = 0
  /\ bitOffset = 0
  /\ nPackets = 0 /\ result = "none" /\ frameFailed = FALSE
  /\ entryLastLen = 0 /\ prevDropped = FALSE /\ regWritten = FALSE
  /\ blockOutcome = "none" /\ lengthBitsUsed = 0
  /\ fallStart = 0 /\ fallLen = 0

\* no pair of coefficient vectors is followed
NoCoefs == coefs0 = << << >>, << >> >> /\ coefs = coefs0 /\ nButterfly = 0

\* the bytes of the bit reservoir are not followed
NoBytes == lastSuperframe = << >> /\ tailBits = 0 /\ overhangStream = << >>

Channels == 0 .. kChannelsMax - 1

\* no decodeExponents call is followed
NoExponents ==
  /\ hasChannel = [c \in Channels |-> FALSE]
  /\ exponentsBSize = [c \in Channels |-> 0]
  /\ exponentsGen = [c \in Channels |-> 0]
  /\ maxExponentGen = [c \in Channels |-> 0]
  /\ expFlag = -1 /\ expCalls = 0 /\ expResult = TRUE

\* no decodeExpHuffman call is followed
NoHuffman == lastExp = 0 /\ expBand = 0 /\ expStatus = "start"

\* no decodeRunLevel call is followed
NoRunLevel ==
  /\ rlVersion = 0 /\ rlCoefBits = 0 /\ rlOffset = 0
  /\ rlStatus = "idle" /\ rlBranch = "none" /\ rlBits = 0
  /\ rlBlockLen = 0 /\ rlWrite = -1 /\ rlResult = "pending"
  /\ rlPosBefore = -1 /\ rlPosAfter = -1

\* nothing but the decoder itself is followed
Untracked == NoCoefs /\ NoBytes /\ NoExponents /\ NoHuffman /\ NoRunLevel

\* the constructor's arguments a, as the members and the stream they go to
Given(a) ==
  /\ version = a.version
  /\ sampleRate = a.sampleRate
  /\ channels = a.channels
  /\ bitRate = a.bitRate
  /\ blockAlign = a.blockAlign
  /\ extraData = [size |-> a.extraSize, u16at2 |-> a.extra2, u16at4 |-> a.extra4]

\* the arguments the members and extraData were given
givenArgs ==
  [version |-> version, sampleRate |-> sampleRate, channels |-> channels,
   bitRate |-> bitRate, blockAlign |-> blockAlign,
   extraSize |-> extraData.size, extra2 |-> extraData.u16at2,
   extra4 |-> extraData.u16at4]

\* WMACodec::WMACodec + init: the decoder after construction
Constructed ==
  \E a \in {x \in CtorArgs : Accepted(x)} :
    \E c \in {construct(a)} :
       /\ Given(a)
       /\ useExpHuffman = c.useExpHuffman
       /\ useBitReservoir = c.useBitReservoir
       /\ useVariableBlockLen = c.useVariableBlockLen
       /\ frameLenBits = c.frameLenBits
       /\ frameLen = c.frameLen
       /\ blockSizeCount = c.blockSizeCount
       /\ byteOffsetBits = c.byteOffsetBits
       /\ useNoiseCoding = c.useNoiseCoding
       /\ exponentBands = c.exponentBands
       /\ coefsEnd = c.coefsEnd
       /\ highBandStart = c.highBandStart
       \* initNoise returns before "_noiseIndex = 0" when noise coding is off,
       \* and the constructor's initialiser list does not name _noiseIndex
       /\ noiseIndex \in (IF c.useNoiseCoding THEN {0} ELSE Indeterminate)
       /\ Fresh

\* the state after construction: no call in progress
Init == Constructed /\ pc = "idle" /\ Untracked

\* ------------------------------------------------------------------------
\* Construction as a step: makeWMAStream with any arguments
\* ------------------------------------------------------------------------
\* the constructor has been entered with some arguments; init has not run
InitCtor ==
  /\ \E a \in WideArgs : Given(a)
  /\ useExpHuffman = FALSE /\ useBitReservoir = FALSE
  /\ useVariableBlockLen = FALSE /\ useNoiseCoding = FALSE
  /\ frameLenBits = 0 /\ frameLen = 0 /\ blockSizeCount = 0 /\ byteOffsetBits = 0
  /\ exponentBands = << >> /\ coefsEnd = << >> /\ highBandStart = << >>
  /\ noiseIndex = 0
  /\ pc = "new"
  /\ Fresh /\ Untracked

\* WMACodec::WMACodec, lines 307-325, as makeWMAStream (line 1726) runs it:
\* one of the three checks throws, or init runs and the stream is returned
Construct ==
  /\ pc = "new"
  /\ IF ~Accepted(givenArgs)
       THEN /\ pc' = "thrown"
            /\ UNCHANGED <<config, register, overhang, curFrame, framePos,
                           curBlock, noiseIndex, audStream, locals, algebra,
                           history>>
       ELSE \E c \in {construct(givenArgs)} :
            /\ pc' = "idle"
            /\ useExpHuffman' = c.useExpHuffman
            /\ useBitReservoir' = c.useBitReservoir
            /\ useVariableBlockLen' = c.useVariableBlockLen
            /\ frameLenBits' = c.frameLenBits
            /\ frameLen' = c.frameLen
            /\ blockSizeCount' = c.blockSizeCount
            /\ byteOffsetBits' = c.byteOffsetBits
            /\ useNoiseCoding' = c.useNoiseCoding
            /\ exponentBands' = c.exponentBands
            /\ coefsEnd' = c.coefsEnd
            /\ highBandStart' = c.highBandStart
            /\ noiseIndex' \in (IF c.useNoiseCoding THEN {0} ELSE Indeterminate)
            /\ UNCHANGED <<version, sampleRate, channels, bitRate, blockAlign,
                           extraData, register, overhang, curFrame, framePos,
                           curBlock, audStream, locals, algebra, history>>

NextCtor == Construct

SpecCtor == InitCtor /\ [][NextCtor]_vars


\* ------------------------------------------------------------------------
\* What a packet can hold
\* ------------------------------------------------------------------------
\* data.size() of a queued packet: around blockAlign, and around the size of
\* the _lastSuperframe buffer
PacketSizes ==
  {n \in {blockAlign - 1, blockAlign, kSuperframeSizeMax + 8} : n >= 0}

\* the 4-bit field at bits 4..7 of a bit-reservoir packet
FrameFields == 0 .. MaxFrameField

\* the (byteOffsetBits + 3)-bit field: some small values and the largest
BitOffsets == {0, 5, Pow2(byteOffsetBits + 3) - 1}

\* a block-length index as read by evalBlockLength: any n-bit value
RawIndex ==
  IF useVariableBlockLen THEN 0 .. (Pow2(intLog2(blockSizeCount - 1) + 1) - 1)
  ELSE {0}

\* bits the coded body of a block takes when a channel is present
\* (decodeChannels: total gain, noise flags, exponents, coefficients)
BodyBits == {MaxBodyBits}

\* ------------------------------------------------------------------------
\* WMACodec::evalBlockLength
\* ------------------------------------------------------------------------
\* frameOverflow never reporting an overflow (a variant of the code)
frameOverflowNever(pos, len) == FALSE

\* lines 1091-1094: the block does not fit into what is left of the frame
frameOverflow(pos, len) == pos + len > frameLen

\* indexOutOfRange accepting every index (a variant of the code)
indexOutOfRangeNever(raw) == FALSE

\* lines 1044, 1052 and 1068: a raw block-length index is rejected
indexOutOfRange(raw) == raw >= blockSizeCount

\* shiftRegister leaving the register as it is (a variant of the code)
shiftRegisterKeep == [prev |-> prevBlockLenBits, cur |-> blockLenBits]

\* lines 1061-1062: prev and cur after the shift
shiftRegister == [prev |-> blockLenBits, cur |-> nextBlockLenBits]

\* fixedBlockLenBits one size below the frame (a variant of the code)
fixedBlockLenBitsHalf == frameLenBits - 1

\* lines 1078-1080: the value the fixed branch stores in all three members
fixedBlockLenBits == frameLenBits

\* avail: bits left in the stream; rp, rc, rn: the values the reads of the
\* prev, cur and next index return.  st is "ok" (returns true), "fail"
\* (returns false) or "eos" (a read past the end of the stream); the other
\* fields are the members as the call leaves them and the bits it consumed.
evalBlockLength(avail, rp, rc, rn) ==
  LET n == intLog2(blockSizeCount - 1) + 1
      out(st, r, p, c, nx, bl, used) ==
        [st |-> st, reset |-> r, prev |-> p, cur |-> c, next |-> nx,
         blockLen |-> bl, used |-> used]
      \* lines 1083-1096
      sanity(r, p, c, nx, used) ==
        IF frameLenBits - c >= blockSizeCount
          THEN out("fail", r, p, c, nx, blockLen, used)
        ELSE IF frameOverflow(framePos, Pow2(c))
          THEN out("fail", r, p, c, nx, Pow2(c), used)
        ELSE out("ok", r, p, c, nx, Pow2(c), used)
      \* lines 1066-1073
      readNext(r, p, c, used) ==
        IF avail < used + n
          THEN out("eos", r, p, c, nextBlockLenBits, blockLen, used)
        ELSE IF indexOutOfRange(rn)
          THEN out("fail", r, p, c, nextBlockLenBits, blockLen, used + n)
        ELSE sanity(r, p, c, frameLenBits - rn, used + n)
  IN IF ~useVariableBlockLen
       THEN sanity(resetBlockLengths, fixedBlockLenBits, fixedBlockLenBits,
                   fixedBlockLenBits, 0)
     ELSE IF resetBlockLengths
       THEN IF avail < n
              THEN out("eos", FALSE, prevBlockLenBits, blockLenBits,
                       nextBlockLenBits, blockLen, 0)
            ELSE IF indexOutOfRange(rp)
              THEN out("fail", FALSE, prevBlockLenBits, blockLenBits,
                       nextBlockLenBits, blockLen, n)
            ELSE IF avail < 2 * n
              THEN out("eos", FALSE, frameLenBits - rp, blockLenBits,
                       nextBlockLenBits, blockLen, n)
            ELSE IF indexOutOfRange(rc)
              THEN out("fail", FALSE, frameLenBits - rp, blockLenBits,
                       nextBlockLenBits, blockLen, 2 * n)
            ELSE readNext(FALSE, frameLenBits - rp, frameLenBits - rc, 2 * n)
     ELSE readNext(FALSE, shiftRegister.prev, shiftRegister.cur, 0)

\* ------------------------------------------------------------------------
\* Variants of the code: each differs from the definition it is named after
\* in one point, and is used to show that a property depends on that point
\* ------------------------------------------------------------------------
\* FrameCount without the overhang frame
FrameCountNew(nfc, lastLen) == nfc

\* OutputDataSize counting bytes (2 per sample) instead of samples
OutputDataSizeBytes(frameCount) == frameCount * channels * frameLen * 2

\* newSuperframeReset leaving the flag as it is
newSuperframeResetKeep(flag) == flag

\* SaveBitoffset with 0 for a whole number of bytes
SaveBitoffsetAligned(remainingBits) ==
  IF remainingBits > 0 THEN (8 - (remainingBits % 8)) % 8 ELSE 0

\* badFrameCount leaving the overhang as it is
badFrameCountKeep ==
  [resetBlockLengths |-> TRUE,
   lastSuperframeLen |-> lastSuperframeLen,
   lastBitoffset |-> lastBitoffset]

\* ------------------------------------------------------------------------
\* WMACodec::decodeSuperFrame: the pieces both steps use
\* ------------------------------------------------------------------------
\* lines 785-787: the members as the newFrameCount < 0 branch leaves them
badFrameCount ==
  [resetBlockLengths |-> TRUE, lastSuperframeLen |-> 0, lastBitoffset |-> 0]

\* line 841: _resetBlockLengths once the overhang frame is behind, whatever
\* it was
newSuperframeReset(flag) == TRUE

\* lines 792-795
FrameCount(nfc, lastLen) == IF lastLen > 0 THEN nfc + 1 ELSE nfc

\* lines 798 and 872: samples in the PCM buffer of the call
OutputDataSize(frameCount) == frameCount * channels * frameLen

\* bits of a bit-reservoir packet before the bitOffset bits: lines 778-804
HeaderBits == 4 + 4 + (byteOffsetBits + 3)

\* appendReads taking a whole byte for the last, partial one (a variant of
\* the code)
appendReadsWholeBytes(bo) == 8 * ((bo + 7) \div 8)

\* lines 813-825: the bits the two append loops read from the packet for a
\* bitOffset of bo: getBits(8) while more than 7 are left, then
\* getBits(bitOffset) for the rest
appendReads(bo) == 8 * (bo \div 8) + (bo % 8)

\* lines 806-838: the bits read or skipped between the header and the first
\* frame of the packet; after the append the local bitOffset is 0 and
\* skip(bitOffset) moves nothing
bitsAfterHeader(bo, pending) == IF pending THEN appendReads(bo) + 0 ELSE bo

\* lines 849-866: the overhang left by a packet with remainingBits bits unread
SaveLen(remainingBits) ==
  IF remainingBits > 0
    THEN LET len == remainingBits \div 8
             off == 8 - (remainingBits - len * 8)
         IN IF off > 0 THEN len + 1 ELSE len
    ELSE 0

SaveBitoffset(remainingBits) ==
  IF remainingBits > 0
    THEN 8 - (remainingBits - (remainingBits \div 8) * 8)
    ELSE 0

\* calculateMDCTCoefficients, noise path: "_noiseIndex = (_noiseIndex + 1) &
\* (kNoiseTabSize - 1)" once per coefficient written; the index is in
\* 0 .. kNoiseTabSize - 1 whenever this path runs
NoiseStep(idx) == (idx + 1) % kNoiseTabSize

\* count applications of NoiseStep
AdvanceNoise(idx, count) ==
  IF count <= 0 THEN idx
  ELSE NoiseStep((idx + (count - 1)) % kNoiseTabSize)

\* coefficients the noise path writes for one present channel: its four
\* loops ([0, coefsStart), [coefsStart, highBandStart), the high bands, and
\* [coefsEnd, blockLen)) together write coefs[0 .. blockLen)
NoiseSamples(bl) == bl


\* ------------------------------------------------------------------------
\* queuePacket, from its entry to its first decodeBlock call or its return
\* ------------------------------------------------------------------------
\* How the part of decodeSuperFrame before the first decodeBlock call ends,
\* for a packet of size bytes with frame-count field `field` and bitOffset
\* field bo (both read only in bit-reservoir mode):
\*   "tooSmall"  line 760        "badCount"  line 782
\*   "readError" a read past the end of the packet
\*   "corrupt"   a write past the end of _lastSuperframe (lines 814, 821, 860)
\*   "overhang"  the overhang frame is decoded next (line 832)
\*   "frame"     a frame of the packet is decoded next (lines 845, 878)
\*   "queued"    no frame to decode: the (empty) PCM buffer is enqueued
\* with the members as this part leaves them.
enterSuperFrame(size, field, bo) ==
  LET avail == size * 8
      nfc == field - 1
      after == avail - HeaderBits              \* bits left after the header
      pending == lastSuperframeLen > 0
      \* lines 813-825: bytes the append loops want to write, and the bytes
      \* they have written when a read runs past the end of the packet
      wanted == (bo \div 8) + (IF bo % 8 > 0 THEN 1 ELSE 0)
      written == IF bo <= after THEN wanted ELSE MIN(bo \div 8, after \div 8)
      remainingBits == avail - (HeaderBits + bo)
      kind ==
        IF size < blockAlign THEN "tooSmall"
        ELSE IF ~useBitReservoir THEN "frame"
        ELSE IF avail < 8 THEN "readError"
        ELSE IF nfc < 0 THEN "badCount"
        ELSE IF avail < HeaderBits THEN "readError"
        ELSE IF pending
          THEN IF lastSuperframeLen + written > LastSuperframeBytes THEN "corrupt"
               ELSE IF bo > after THEN "readError"
               ELSE "overhang"
        ELSE IF bo > after THEN "readError"
        ELSE IF nfc > 0 THEN "frame"
        ELSE IF SaveLen(remainingBits) > LastSuperframeBytes THEN "corrupt"
        ELSE "queued"
      counted == useBitReservoir /\ size >= blockAlign /\ avail >= 8
      sized == counted /\ nfc >= 0
      skipped == sized /\ ~pending /\ avail >= HeaderBits /\ bo <= after
  IN [kind |-> kind,
      newFrameCount |-> IF counted THEN nfc ELSE newFrameCount,
      outputDataSize |->
        IF sized THEN OutputDataSize(FrameCount(nfc, lastSuperframeLen))
        ELSE IF kind = "frame" THEN OutputDataSize(1)
        ELSE outputDataSize,
      bitsPos |-> IF useBitReservoir THEN HeaderBits + bitsAfterHeader(bo, pending)
                  ELSE 0,
      \* lines 785 and 841
      resetBlockLengths |-> IF kind = "badCount" THEN badFrameCount.resetBlockLengths
                            ELSE IF skipped THEN newSuperframeReset(resetBlockLengths)
                            ELSE resetBlockLengths,
      \* lines 786, 817/824 and 853-857
      lastSuperframeLen |->
        IF kind = "badCount" THEN badFrameCount.lastSuperframeLen
        ELSE IF sized /\ pending /\ avail >= HeaderBits
          THEN lastSuperframeLen + written
        ELSE IF skipped /\ nfc = 0 THEN SaveLen(remainingBits)
        ELSE lastSuperframeLen,
      \* lines 787 and 854
      lastBitoffset |->
        IF kind = "badCount" THEN badFrameCount.lastBitoffset
        ELSE IF skipped /\ nfc = 0 THEN SaveBitoffset(remainingBits)
        ELSE lastBitoffset]

queuePacketOn(size, field, bo) ==
  \E q \in {enterSuperFrame(size, field, bo)} :
  LET decoding == q.kind \in {"overhang", "frame"}
  IN /\ pc = "idle"
     /\ nPackets' = nPackets + 1
     /\ prevDropped' = (result \in Dropped)
     /\ entryLastLen' = lastSuperframeLen
     /\ frameFailed' = FALSE
     /\ regWritten' = FALSE
     /\ pc' = IF decoding THEN "block"
              ELSE IF q.kind = "corrupt" THEN "corrupt" ELSE "idle"
     /\ result' = IF decoding THEN "running" ELSE q.kind
     /\ src' = IF q.kind = "overhang" THEN "last" ELSE "data"
     /\ dataSize' = IF decoding THEN size ELSE 0
     /\ bitsPos' = IF decoding THEN q.bitsPos ELSE 0
     /\ lastBitsPos' = IF q.kind = "overhang" THEN lastBitoffset ELSE 0
     /\ i' = 0
     /\ pcmWritten' = 0
     /\ bitOffset' = IF decoding /\ useBitReservoir THEN bo ELSE 0
     /\ blockOutcome' = "none"
     /\ lengthBitsUsed' = 0
     /\ newFrameCount' = q.newFrameCount
     /\ outputDataSize' = q.outputDataSize
     \* line 773
     /\ curFrame' = IF q.kind = "tooSmall" THEN curFrame ELSE 0
     \* decodeFrame, lines 892-893, of the first frame
     /\ framePos' = IF decoding THEN 0 ELSE framePos
     /\ curBlock' = IF decoding THEN 0 ELSE curBlock
     /\ resetBlockLengths' = q.resetBlockLengths
     /\ lastSuperframeLen' = q.lastSuperframeLen
     /\ lastBitoffset' = q.lastBitoffset
     \* lines 882-888 and queuePacket, line 1722
     /\ audStream' = IF q.kind = "queued" THEN Append(audStream, q.outputDataSize)
                     ELSE audStream
     /\ UNCHANGED <<config, noiseIndex, blockLen, blockLenBits,
                    nextBlockLenBits, prevBlockLenBits, algebra,
                    fallStart, fallLen>>

\* ------------------------------------------------------------------------
\* calculateIMDCT and window: the indices of _mdctWindow and of _frameOut
\* ------------------------------------------------------------------------
\* window, lines 1616-1631: the index of _mdctWindow its left part uses
windowLeftIndex ==
  IF blockLenBits <= prevBlockLenBits THEN frameLenBits - blockLenBits
  ELSE frameLenBits - prevBlockLenBits

\* window, lines 1637-1656: the index of _mdctWindow its right part uses
windowRightIndex ==
  IF blockLenBits <= nextBlockLenBits THEN frameLenBits - blockLenBits
  ELSE frameLenBits - nextBlockLenBits

\* initMDCT, lines 672-675: the indices _mdctWindow has
windowTables == 0 .. blockSizeCount - 1

\* decodeBlock, lines 957-964: calculateIMDCT, and so window, has run in
\* the last decodeBlock call exactly when that call returned 0 or 1
windowRan == blockOutcome \in {"more", "done"}

\* the first index of _frameOut without the - n4 (a variant of the code)
overlapIndexUncentred(pos, len) == (frameLen \div 2) + pos

\* calculateIMDCT, lines 1015 and 1023: the first index of _frameOut that
\* window is handed for a block of len samples at frame position pos
overlapIndex(pos, len) == (frameLen \div 2) + pos - (len \div 2)

\* window, lines 1616-1656: the left part covers len floats from out, the
\* right part the len floats after them
overlapEnd(pos, len) == overlapIndex(pos, len) + 2 * len

\* window, lines 1616-1631: the floats its left part multiplies by the
\* rising window and adds into out, for a block of 2^curBits samples after
\* one of 2^prevBits
windowRiseLen(prevBits, curBits) ==
  IF curBits <= prevBits THEN Pow2(curBits) ELSE Pow2(prevBits)

\* their first index in _frameOut[c], the block being at frame position pos
windowRiseStart(pos, prevBits, curBits) ==
  overlapIndex(pos, Pow2(curBits))
    + (IF curBits <= prevBits THEN 0
       ELSE (Pow2(curBits) - Pow2(prevBits)) \div 2)

\* window, lines 1637-1656: the floats its right part writes through the
\* falling window, for a block of 2^curBits samples before one of 2^nextBits
windowFallLen(curBits, nextBits) ==
  IF curBits <= nextBits THEN Pow2(curBits) ELSE Pow2(nextBits)

\* their first index with the falling part taken from the start of the
\* right half (a variant of the code)
windowFallStartAtHalf(pos, curBits, nextBits) ==
  overlapIndex(pos, Pow2(curBits)) + Pow2(curBits)

\* their first index in _frameOut[c]
windowFallStart(pos, curBits, nextBits) ==
  overlapIndex(pos, Pow2(curBits)) + Pow2(curBits)
    + (IF curBits <= nextBits THEN 0
       ELSE (Pow2(curBits) - Pow2(nextBits)) \div 2)

\* ------------------------------------------------------------------------
\* One decodeBlock call, and whatever the code does after it up to the next
\* decodeBlock call or the return of queuePacket
\* ------------------------------------------------------------------------
\* the test with > for >= (a variant of the code)
frameFinishedPast(pos) == pos > frameLen

\* decodeBlock, lines 967-968: the frame is complete at position pos
frameFinished(pos) == pos >= frameLen

\* decodeBlock on avail bits: e is evalBlockLength's result; present: how
\* many hasChannel bits are set; body: the bits decodeChannels consumes; ok:
\* decodeChannels returns true.  "eos": a read past the end of the stream,
\* "fail": returns -1, "more": returns 0, "done": returns 1.
decodeBlock(e, avail, present, body, ok) ==
  LET \* lines 931-948: the msStereo bit and one bit per channel
      flagBits == (IF channels = 2 THEN 1 ELSE 0) + channels
      need == e.used + flagBits + (IF present > 0 THEN body ELSE 0)
  IN [need |-> need,
      outcome |->
        IF e.st # "ok" THEN e.st
        ELSE IF need > avail THEN "eos"
        ELSE IF present > 0 /\ ~ok THEN "fail"
        ELSE IF frameFinished(framePos + e.blockLen) THEN "done"
        ELSE "more"]

\* the frames decodeSuperFrame decodes from the packet itself (lines 844, 878)
PacketFrames == IF useBitReservoir THEN newFrameCount ELSE 1

decodeBlockOn(rp, rc, rn, present, body, ok) ==
  LET fromLast == src = "last"
      p0 == IF fromLast THEN lastBitsPos ELSE bitsPos
      size == IF fromLast THEN lastSuperframeLen * 8 ELSE dataSize * 8
  IN
  \E e \in {evalBlockLength(size - p0, rp, rc, rn)} :
  \E b \in {decodeBlock(e, size - p0, present, body, ok)} :
  LET decoded == b.outcome \in {"more", "done"}
      \* the value of the overhang frame's decodeFrame is not looked at (line 832)
      frameEnds == b.outcome = "done" \/ (b.outcome = "fail" /\ fromLast)
      abort == b.outcome = "eos" \/ (b.outcome = "fail" /\ ~fromLast)
      moreFrames == IF fromLast THEN newFrameCount > 0 ELSE i + 1 < PacketFrames
      finishing == frameEnds /\ ~moreFrames
      remainingBits == dataSize * 8 - (IF fromLast THEN bitsPos ELSE p0 + b.need)
  IN
  \E overrun \in {finishing /\ useBitReservoir
                    /\ SaveLen(remainingBits) > LastSuperframeBytes} :
     /\ pc = "block"
     /\ pc' = IF abort THEN "idle"
              ELSE IF finishing THEN (IF overrun THEN "corrupt" ELSE "idle")
              ELSE "block"
     /\ result' = IF b.outcome = "eos" THEN "readError"
                  ELSE IF abort THEN "frameError"
                  ELSE IF finishing THEN (IF overrun THEN "corrupt" ELSE "queued")
                  ELSE result
     /\ frameFailed' = (frameFailed \/ b.outcome = "fail")
     /\ blockOutcome' = IF e.st = "fail" THEN "badLength" ELSE b.outcome
     /\ lengthBitsUsed' = e.used
     \* calculateIMDCT and window, and the memmove of decodeFrame (lines
     \* 914-916) after the frame's last block
     /\ fallLen' = IF decoded THEN windowFallLen(e.cur, e.next) ELSE 0
     /\ fallStart' = IF decoded
                       THEN windowFallStart(framePos, e.cur, e.next)
                              - (IF b.outcome = "done" THEN frameLen ELSE 0)
                       ELSE 0
     \* decodeFrame, lines 910-912, after the frame's last block
     /\ pcmWritten' = IF b.outcome = "done" THEN pcmWritten + channels * frameLen
                      ELSE pcmWritten
     /\ regWritten' = (regWritten \/ (useVariableBlockLen /\ resetBlockLengths
                                       /\ e.st = "ok"))
     \* line 841 after the overhang frame; evalBlockLength otherwise
     /\ resetBlockLengths' = IF frameEnds /\ fromLast THEN newSuperframeReset(e.reset)
                             ELSE e.reset
     /\ prevBlockLenBits' = e.prev
     /\ blockLenBits' = e.cur
     /\ nextBlockLenBits' = e.next
     /\ blockLen' = e.blockLen
     /\ noiseIndex' = IF decoded /\ present > 0 /\ useNoiseCoding
                        THEN AdvanceNoise(noiseIndex, present * NoiseSamples(e.blockLen))
                        ELSE noiseIndex
     \* lines 963-964, and lines 892-893 of the next frame's decodeFrame
     /\ curBlock' = IF frameEnds /\ moreFrames THEN 0
                    ELSE IF decoded THEN curBlock + 1 ELSE curBlock
     /\ framePos' = IF frameEnds /\ moreFrames THEN 0
                    ELSE IF decoded THEN framePos + e.blockLen ELSE framePos
     \* lines 834 and 844
     /\ curFrame' = IF frameEnds /\ useBitReservoir THEN curFrame + 1 ELSE curFrame
     /\ i' = IF abort \/ finishing THEN 0
             ELSE IF frameEnds /\ ~fromLast THEN i + 1 ELSE i
     /\ src' = IF abort \/ finishing \/ (frameEnds /\ fromLast) THEN "data" ELSE src
     /\ dataSize' = IF abort \/ finishing THEN 0 ELSE dataSize
     /\ bitsPos' = IF abort \/ finishing THEN 0
                   ELSE IF ~fromLast THEN p0 + b.need ELSE bitsPos
     /\ lastBitsPos' = IF abort \/ frameEnds THEN 0
                       ELSE IF fromLast THEN p0 + b.need ELSE lastBitsPos
     \* lines 848-866
     /\ lastSuperframeLen' = IF finishing /\ useBitReservoir THEN SaveLen(remainingBits)
                             ELSE lastSuperframeLen
     /\ lastBitoffset' = IF finishing /\ useBitReservoir THEN SaveBitoffset(remainingBits)
                         ELSE lastBitoffset
     \* lines 882-888 and queuePacket, line 1722
     /\ audStream' = IF finishing /\ ~overrun THEN Append(audStream, outputDataSize)
                     ELSE audStream
     /\ UNCHANGED <<config, newFrameCount, outputDataSize, bitOffset,
                    nPackets, entryLastLen, prevDropped, algebra>>

\* a queuePacket call with any packet
QueuePacket ==
  /\ nPackets < MaxPackets
  /\ \E size \in PacketSizes,
        field \in (IF useBitReservoir THEN FrameFields ELSE {0}),
        bo \in (IF useBitReservoir THEN BitOffsets ELSE {0}) :
       queuePacketOn(size, field, bo)

\* a decodeBlock call reading any bits: the prev and cur indices are read
\* only after a reset, the body only when a channel is present
DecodeBlock ==
  \E rp \in (IF resetBlockLengths THEN RawIndex ELSE {0}),
     rc \in (IF resetBlockLengths THEN RawIndex ELSE {0}),
     rn \in RawIndex, present \in 0 .. channels :
    \E body \in (IF present > 0 THEN BodyBits ELSE {0}),
       ok \in (IF present > 0 THEN BOOLEAN ELSE {TRUE}) :
      decodeBlockOn(rp, rc, rn, present, body, ok)

Next == QueuePacket \/ DecodeBlock

Spec == Init /\ [][Next]_vars

\* ------------------------------------------------------------------------
\* A longer stream of packets without bit reservoir, with variable block
\* lengths: every packet is one frame (lines 868-880)
\* ------------------------------------------------------------------------
InitStream == Init /\ ~useBitReservoir /\ useVariableBlockLen

\* a queuePacket call with any packet of the stream
QueueStreamPacket ==
  /\ nPackets < MaxStreamPackets
  /\ \E size \in PacketSizes : queuePacketOn(size, 0, 0)

NextStream == QueueStreamPacket \/ DecodeBlock

SpecStream == InitStream /\ [][NextStream]_vars

\* ------------------------------------------------------------------------
\* The bit reservoir byte by byte: saving the overhang (lines 848-866) and
\* completing it from the next packet (lines 806-830)
\* ------------------------------------------------------------------------
\* A bit is named after where it comes from: bit idx of the packet that
\* leaves the overhang, bit j after the header of the packet that completes
\* it (both 0-based), or a 0 the code puts there.
PrevBit(idx) == <<"prev", idx>>
CurBit(j) == <<"cur", j>>
ZeroBit == <<"zero", 0>>

\* lines 859-860: data.seek(data.size() - len); data.read(_lastSuperframe, len)
savedBytes(len) ==
  [k \in 1 .. len |->
     [b \in 1 .. 8 |-> PrevBit(8 * (PrevPacketBytes - len + k - 1) + b - 1)]]

\* lines 813-825: the bytes stored behind the overhang for a bitOffset of
\* bo: getBits(8) for each full byte, then getBits(rest) << (8 - rest)
appendedBytes(bo) ==
  LET full == bo \div 8
      rest == bo % 8
  IN [k \in 1 .. full |-> [b \in 1 .. 8 |-> CurBit(8 * (k - 1) + b - 1)]]
     \o (IF rest > 0
           THEN << [b \in 1 .. 8 |-> IF b <= rest THEN CurBit(8 * full + b - 1)
                                     ELSE ZeroBit] >>
         ELSE << >>)

\* Common::BitStream8MSB over bytes, after skip(n): the bits it yields, each
\* byte from its most significant bit
RECURSIVE bytesAsBits(_)
bytesAsBits(bytes) ==
  IF bytes = << >> THEN << >> ELSE Head(bytes) \o bytesAsBits(Tail(bytes))

bitsFrom(bytes, n) == SubSeq(bytesAsBits(bytes), n + 1, 8 * Len(bytes))

\* a bit-reservoir decoder at the end of a packet's frame loop
InitReservoir ==
  /\ Constructed /\ useBitReservoir
  /\ pc = "save"
  /\ Untracked

\* lines 848-866, for a packet of PrevPacketBytes bytes with r bits unread
SaveOverhang ==
  /\ pc = "save"
  /\ \E r \in 0 .. MaxTailBits :
       /\ tailBits' = r
       /\ lastSuperframeLen' = SaveLen(r)
       /\ lastBitoffset' = SaveBitoffset(r)
       /\ lastSuperframe' = savedBytes(SaveLen(r))
  /\ pc' = "saved"
  /\ UNCHANGED <<config, register, curFrame, framePos, curBlock, noiseIndex,
                 audStream, locals, overhangStream, history,
                 butterflyVars, exponentVars, huffmanVars,
                 runLevelVars>>

\* lines 806-830 of the next call, for a bitOffset field of bo: the append,
\* and the stream the overhang frame is decoded from
AppendOverhang ==
  /\ pc = "saved"
  /\ lastSuperframeLen > 0
  /\ \E bo \in 0 .. MaxJoinBits :
       \E bytes \in {lastSuperframe \o appendedBytes(bo)} :
         /\ bitOffset' = bo
         /\ lastSuperframe' = bytes
         /\ lastSuperframeLen' = Len(bytes)
         /\ overhangStream' = bitsFrom(bytes, lastBitoffset)
         /\ bitsPos' = HeaderBits + appendReads(bo)
  /\ lastBitsPos' = lastBitoffset
  /\ src' = "last"
  /\ pc' = "joined"
  /\ UNCHANGED <<config, register, lastBitoffset, curFrame, framePos, curBlock,
                 noiseIndex, audStream, dataSize, newFrameCount, outputDataSize,
                 i, pcmWritten, tailBits, history, butterflyVars, exponentVars, huffmanVars,
                 runLevelVars>>

NextReservoir == SaveOverhang \/ AppendOverhang

SpecReservoir == InitReservoir /\ [][NextReservoir]_vars

\* ------------------------------------------------------------------------
\* decodeExponents (lines 1157-1178) on its own
\* ------------------------------------------------------------------------
\* reuseExponents never keeping the exponents (a variant of the code)
reuseExponentsNever(bSize, flag) == FALSE

\* lines 1159-1160: the early return; flag is the bit read when the block is
\* shorter than the frame
reuseExponents(bSize, flag) == ~(bSize = 0 \/ flag = 1)

\* a decoder inside decodeChannels.  Neither the constructor nor init
\* writes _exponentsBSize.
InitExponents ==
  /\ Constructed
  /\ pc = "exponents"
  /\ NoCoefs /\ NoBytes /\ NoHuffman /\ NoRunLevel
  /\ hasChannel = [c \in Channels |-> FALSE]
  /\ exponentsBSize \in [Channels -> Indeterminate]
  /\ exponentsGen = [c \in Channels |-> 0]
  /\ maxExponentGen = [c \in Channels |-> 0]
  /\ expFlag = -1 /\ expCalls = 0 /\ expResult = TRUE

\* decodeExponents(bits, bSize, hasChannel) in a block of size index bSize
\* (decodeBlock, line 928: bSize = _frameLenBits - _blockLenBits), with flag
\* the reuse bit in the stream and hc the channels present (at least one:
\* line 951).  failAt is the channel whose decodeExpHuffman returns false,
\* or -1; decodeExpLSP always returns true.  written: the failing call had
\* stored exponents before it failed.
DecodeExponents ==
  /\ pc = "exponents"
  /\ expCalls < MaxExpCalls
  /\ \E bSize \in 0 .. blockSizeCount - 1, flag \in {0, 1},
        hc \in {h \in [Channels -> BOOLEAN] :
                  /\ \E c \in Channels : h[c]
                  /\ \A c \in Channels : h[c] => c < channels},
        failAt \in -1 .. channels - 1, written \in BOOLEAN :
       LET redo == ~reuseExponents(bSize, flag)
           fails == redo /\ failAt >= 0
           reached(c) == redo /\ hc[c] /\ (failAt < 0 \/ c <= failAt)
           finished(c) == redo /\ hc[c] /\ (failAt < 0 \/ c < failAt)
       IN /\ failAt >= 0 => (useExpHuffman /\ hc[failAt] /\ redo)
          /\ written => failAt >= 0
          /\ blockLenBits' = frameLenBits - bSize
          /\ blockLen' = Pow2(frameLenBits - bSize)
          /\ hasChannel' = hc
          /\ expFlag' = IF bSize = 0 THEN -1 ELSE flag
          /\ expResult' = ~fails
          /\ exponentsGen' =
               [c \in Channels |->
                  IF finished(c) \/ (reached(c) /\ written)
                    THEN exponentsGen[c] + 1 ELSE exponentsGen[c]]
          /\ maxExponentGen' =
               [c \in Channels |->
                  IF finished(c) THEN maxExponentGen[c] + 1 ELSE maxExponentGen[c]]
          /\ exponentsBSize' =
               [c \in Channels |-> IF finished(c) THEN bSize ELSE exponentsBSize[c]]
  /\ expCalls' = expCalls + 1
  /\ UNCHANGED <<config, resetBlockLengths, nextBlockLenBits, prevBlockLenBits,
                 overhang, curFrame, framePos, curBlock, noiseIndex, audStream,
                 pc, locals, history, butterflyVars, reservoirVars, huffmanVars,
                 runLevelVars>>

\* calculateMDCTCoefficients, lines 1235-1325: the index of _exponents[c]
\* for coefficient j, (j << bSize) >> eSize with eSize = _exponentsBSize[c]
exponentIndex(j, bSize, eSize) == (j * Pow2(bSize)) \div Pow2(eSize)

\* decodeChannels, lines 986-994: calculateMDCTCoefficients runs on the
\* present channels once decodeExponents has returned true
synthesised(c) ==
  pc = "exponents" /\ expCalls > 0 /\ expResult /\ hasChannel[c]

NextExponents == DecodeExponents

SpecExponents == InitExponents /\ [][NextExponents]_vars

\* ------------------------------------------------------------------------
\* decodeExpHuffman (lines 1422-1491) on its own
\* ------------------------------------------------------------------------
\* the value of the 5-bit field a version-1 stream starts lastExp from: the
\* smallest, one in the middle and the largest
FirstExpBits == {0, 15, 31}

\* symbols of the exponent Huffman code that are drawn, and -1 for a code
\* that is none (getSymbol's error value)
ExpSymbols == {-1, 0, 12, 59, 60, 61, 84, 107, 108, 119, 120}

\* line 1465: (unsigned) lastExp + 60 >= ARRAYSIZE(powTab); a negative sum
\* converts to a value of at least 2^31
expOutOfRange(e) == IF e + 60 < 0 THEN TRUE ELSE e + 60 >= powTabSize

\* a decoder with Huffman-coded exponents at the call of line 1167
InitExpHuffman ==
  /\ Constructed /\ useExpHuffman
  /\ pc = "huffman"
  /\ Untracked

\* lines 1433-1453: the start value of lastExp; version 1 reads it and
\* stores the first band with it
ExpHuffmanStart ==
  /\ pc = "huffman" /\ expStatus = "start"
  /\ IF version = 1
       THEN \E first \in FirstExpBits :
              lastExp' = first + 10 /\ expBand' = 1
       ELSE lastExp' = 36 /\ expBand' = 0
  /\ expStatus' = "run"
  /\ UNCHANGED <<config, register, overhang, curFrame, framePos, curBlock,
                 noiseIndex, audStream, pc, locals, history,
                 butterflyVars, reservoirVars, exponentVars, runLevelVars>>

\* lines 1456-1485: one pass of the loop, reading symbol code
ExpHuffmanSymbol ==
  /\ pc = "huffman" /\ expStatus = "run"
  /\ expBand < MaxExpBands
  /\ \E code \in ExpSymbols :
       IF code < 0
         THEN expStatus' = "invalid" /\ UNCHANGED <<lastExp, expBand>>
         ELSE /\ lastExp' = lastExp + code - 60
              /\ IF expOutOfRange(lastExp + code - 60)
                   THEN expStatus' = "range" /\ UNCHANGED expBand
                   ELSE expStatus' = "run" /\ expBand' = expBand + 1
  /\ UNCHANGED <<config, register, overhang, curFrame, framePos, curBlock,
                 noiseIndex, audStream, pc, locals, history,
                 butterflyVars, reservoirVars, exponentVars, runLevelVars>>

NextExpHuffman == ExpHuffmanStart \/ ExpHuffmanSymbol

SpecExpHuffman == InitExpHuffman /\ [][NextExpHuffman]_vars

\* ------------------------------------------------------------------------
\* decodeRunLevel (lines 1540-1604) as decodeSpectralCoef calls it
\* ------------------------------------------------------------------------
\* the version argument taken from the stream's version: 0 for version 1,
\* 1 for version 2 (a variant of the code)
runLevelVersionOfStream == version - 1

\* line 1195: the version argument of the only decodeRunLevel call
runLevelVersion == 0

\* values of coefBitCount (totalGainToBits returns 1 .. 9)
CoefBitCounts == {1, 9}

\* zero runs that are drawn: a symbol's run, the 2-bit field, and the
\* frameLenBits-bit field share the small values; the wide field also has
\* its largest
Runs == {0, 1, 3}
WideRuns == Runs \cup {Pow2(frameLenBits) - 1}

\* getLargeVal, lines 1700-1716: the bits it reads when ones of the up to
\* three prefix bits are set
largeValBits(ones) ==
  IF ones = 0 THEN 1 + 8
  ELSE IF ones = 1 THEN 2 + 16
  ELSE IF ones = 2 THEN 3 + 24
  ELSE 3 + 31

\* a & b of two non-negative integers
RECURSIVE BitAnd(_, _)
BitAnd(a, b) ==
  IF a = 0 \/ b = 0 THEN 0
  ELSE (a % 2) * (b % 2) + 2 * BitAnd(a \div 2, b \div 2)

\* the values _blockLen has once evalBlockLength has passed (lines 1083-1087)
BlockLens == {Pow2(frameLenBits - k) : k \in 0 .. blockSizeCount - 1}

\* the index of ptr without the mask (a variant of the code)
coefIndexUnmasked(offset, len) == offset

\* lines 1544, 1557 and 1594: ptr[offset & coefMask], coefMask = blockLen - 1
coefIndex(offset, len) == BitAnd(offset, len - 1)

\* a decoder inside decodeSpectralCoef, at a present channel
InitRunLevel ==
  /\ Constructed
  /\ pc = "runlevel"
  /\ Untracked

\* lines 1193-1196: the call, with offset 0 and coefBitCount bits per
\* escaped level
CallRunLevel ==
  /\ pc = "runlevel" /\ rlStatus = "idle"
  /\ rlVersion' = runLevelVersion
  /\ \E cb \in CoefBitCounts : rlCoefBits' = cb
  /\ rlOffset' = 0
  /\ rlStatus' = "run"
  /\ \E len \in BlockLens : rlBlockLen' = len
  /\ UNCHANGED <<rlBranch, rlBits, rlWrite, rlResult, rlPosBefore, rlPosAfter>>
  /\ UNCHANGED <<config, register, overhang, curFrame, framePos, curBlock,
                 noiseIndex, audStream, pc, locals, history,
                 butterflyVars, reservoirVars, exponentVars, huffmanVars>>

\* lines 1546-1604: one pass of the loop, and the return after the last.  code is the Huffman symbol (2
\* stands for every code > 1), run the zero run of a normal code, wide the
\* frameLenBits-bit field, short the 2-bit field, ones the prefix of
\* getLargeVal, and e1, e2, e3 the bits of the escape prefix.
RunLevelSymbol ==
  /\ pc = "runlevel" /\ rlStatus = "run"
  /\ \E code \in {0, 1, 2}, run \in Runs, wide \in WideRuns, short \in Runs,
        ones \in 0 .. 3, e1 \in {0, 1}, e2 \in {0, 1}, e3 \in {0, 1} :
       LET \* the loop's own offset++ and its test, line 1546
           step(off) == [offset |-> off + 1,
                         status |-> IF off + 1 < MaxRunCoefs THEN "run" ELSE "end"]
           r == IF code > 1
                  THEN [branch |-> "normal", bits |-> 1, broken |-> FALSE,
                        off |-> rlOffset + run]
                ELSE IF rlVersion = 0
                  THEN [branch |-> "fixed",
                        bits |-> rlCoefBits + frameLenBits + 1,
                        broken |-> FALSE, off |-> rlOffset + wide]
                ELSE IF e1 = 1 /\ e2 = 1 /\ e3 = 1
                  THEN [branch |-> "prefix", bits |-> largeValBits(ones) + 3,
                        broken |-> TRUE, off |-> rlOffset]
                ELSE IF e1 = 1 /\ e2 = 1
                  THEN [branch |-> "prefix",
                        bits |-> largeValBits(ones) + 3 + frameLenBits + 1,
                        broken |-> FALSE, off |-> rlOffset + wide + 4]
                ELSE IF e1 = 1
                  THEN [branch |-> "prefix", bits |-> largeValBits(ones) + 2 + 2 + 1,
                        broken |-> FALSE, off |-> rlOffset + short + 1]
                ELSE [branch |-> "prefix", bits |-> largeValBits(ones) + 1 + 1,
                      broken |-> FALSE, off |-> rlOffset]
       IN IF code = 1
            THEN /\ rlStatus' = "eob" /\ rlBranch' = "eob" /\ rlBits' = 0
                 /\ rlResult' = "true"
                 /\ UNCHANGED <<rlOffset, rlWrite>>
            ELSE /\ rlBranch' = r.branch
                 /\ rlBits' = r.bits
                 /\ IF r.broken
                      THEN /\ rlStatus' = "broken" /\ rlResult' = "false"
                           /\ UNCHANGED <<rlOffset, rlWrite>>
                      ELSE /\ rlWrite' = coefIndex(r.off, rlBlockLen)
                           /\ rlOffset' = step(r.off).offset
                           /\ rlStatus' = step(r.off).status
                           \* lines 1599-1604: true with or without the
                           \* overflow warning
                           /\ rlResult' = IF step(r.off).status = "end"
                                            THEN "true" ELSE "pending"
  /\ UNCHANGED <<rlVersion, rlCoefBits, rlBlockLen, rlPosBefore, rlPosAfter>>
  /\ UNCHANGED <<config, register, overhang, curFrame, framePos, curBlock,
                 noiseIndex, audStream, pc, locals, history,
                 butterflyVars, reservoirVars, exponentVars, huffmanVars>>

\* bit positions at which decodeRunLevel returns
AlignPositions == 0 .. MaxAlignPos

\* Common::BitStream::skip(n) at position pos: a relative skip of n bits.
\* For n < 0 the stream either steps back by -n bits or, taking n as an
\* unsigned count, reads on until it runs off its end and throws.
skip(pos, n) ==
  IF n >= 0 THEN {[st |-> "aligned", pos |-> pos + n]}
  ELSE {[st |-> "aligned", pos |-> pos + n], [st |-> "thrown", pos |-> pos]}

\* line 1200: the argument of the skip, -(bits.pos() & 7)
alignSkip(pos) == 0 - BitAnd(pos, 7)

\* lines 1199-1200, after the channel's decodeRunLevel has returned true
\* with the stream at pos
AlignChannel ==
  /\ pc = "runlevel" /\ rlStatus \in {"eob", "end"}
  /\ \E pos \in AlignPositions :
       /\ rlPosBefore' = pos
       /\ IF version = 1 /\ channels >= 2
            THEN \E o \in skip(pos, alignSkip(pos)) :
                   rlStatus' = o.st /\ rlPosAfter' = o.pos
            ELSE rlStatus' = "aligned" /\ rlPosAfter' = pos
  /\ UNCHANGED <<rlVersion, rlCoefBits, rlOffset, rlBranch, rlBits,
                 rlBlockLen, rlWrite, rlResult>>
  /\ UNCHANGED <<config, register, overhang, curFrame, framePos, curBlock,
                 noiseIndex, audStream, pc, locals, history,
                 butterflyVars, reservoirVars, exponentVars, huffmanVars>>

NextRunLevel == CallRunLevel \/ RunLevelSymbol \/ AlignChannel

SpecRunLevel == InitRunLevel /\ [][NextRunLevel]_vars

\* ------------------------------------------------------------------------
\* The MS-stereo butterfly of decodeChannels (lines 996-1006) on its own
\* ------------------------------------------------------------------------
\* butterflyFloats with the difference taken the other way round (a variant
\* of the code)
butterflyFloatsSwapped(v1, v2, len) ==
  << [j \in 1 .. Len(v1) |-> IF j <= len THEN v1[j] + v2[j] ELSE v1[j]],
     [j \in 1 .. Len(v2) |-> IF j <= len THEN v2[j] - v1[j] ELSE v2[j]] >>

\* butterflyFloats, lines 77-84: the two vectors after the call.  The
\* coefficients are integers of small magnitude, which binary32 holds, adds
\* and subtracts exactly.
butterflyFloats(v1, v2, len) ==
  << [j \in 1 .. Len(v1) |-> IF j <= len THEN v1[j] + v2[j] ELSE v1[j]],
     [j \in 1 .. Len(v2) |-> IF j <= len THEN v1[j] - v2[j] ELSE v2[j]] >>

\* the vectors of blockLen coefficients the butterfly can meet
CoefVectors ==
  UNION {[1 .. n -> -MaxCoef .. MaxCoef] : n \in 1 .. MaxVecLen}

\* a stereo decoder inside decodeChannels, with _coefs[0] and _coefs[1] filled
InitButterfly ==
  /\ Constructed /\ channels = 2
  /\ pc = "coefs"
  /\ coefs0 \in {p \in CoefVectors \X CoefVectors : Len(p[1]) = Len(p[2])}
  /\ coefs = coefs0
  /\ nButterfly = 0
  /\ NoBytes /\ NoExponents /\ NoHuffman /\ NoRunLevel

\* line 1005: butterflyFloats(_coefs[0], _coefs[1], _blockLen)
Butterfly ==
  /\ pc = "coefs"
  /\ nButterfly < MaxButterflies
  /\ coefs' = butterflyFloats(coefs[1], coefs[2], Len(coefs[1]))
  /\ nButterfly' = nButterfly + 1
  /\ UNCHANGED <<config, register, overhang, curFrame, framePos, curBlock,
                 noiseIndex, audStream, pc, locals, coefs0, history,
                 reservoirVars, exponentVars, huffmanVars, runLevelVars>>

NextButterfly == Butterfly

SpecButterfly == InitButterfly /\ [][NextButterfly]_vars


\* ------------------------------------------------------------------------
\* Properties
\* ------------------------------------------------------------------------
\* the step on which a queuePacket call returns
CallReturns == pc' = "idle" /\ (pc = "block" \/ nPackets' # nPackets)

\* the decodeBlock call about to be made is the first of its queuePacket call
FirstBlockOfCall == pc = "block" /\ curFrame = 0 /\ curBlock = 0

\* C1: without the bit reservoir, a queuePacket call whose frame decodes
\* without error enqueues exactly one PCM buffer of channels * frameLen
\* samples, whatever the packet holds and whatever the earlier packets were.
C1_OneFramePerPacket ==
  [][(~useBitReservoir /\ pc = "block" /\ pc' = "idle"
        /\ ~frameFailed' /\ result' # "readError")
       => audStream' = Append(audStream, channels * frameLen)]_vars

\* a second packet of a non-reservoir stereo stream decoded after a dropped one
C1_Witness ==
  /\ ~useBitReservoir /\ channels = 2
  /\ pc = "idle" /\ nPackets = 2 /\ prevDropped
  /\ result = "queued" /\ ~frameFailed
  /\ audStream = <<channels * frameLen>>

\* C2: with the bit reservoir, a queuePacket call that enqueues a buffer
\* enqueues one of (newFrameCount + (1 if lastSuperframeLen > 0 on entry))
\* * channels * frameLen samples; a packet with newFrameCount = 0 that meets
\* a pending overhang yields exactly one frame.
C2_ReservoirBufferSize ==
  [][(useBitReservoir /\ CallReturns /\ result' = "queued")
       => audStream' =
            Append(audStream,
                   (newFrameCount' + (IF entryLastLen' > 0 THEN 1 ELSE 0))
                     * channels * frameLen)]_vars

\* a packet without a frame of its own completes the pending overhang frame
C2_Witness ==
  /\ useBitReservoir /\ pc = "idle" /\ result = "queued" /\ ~frameFailed
  /\ newFrameCount = 0 /\ entryLastLen > 0
  /\ audStream[Len(audStream)] = channels * frameLen

\* C3: a packet with data.size < blockAlign is dropped and leaves
\* resetBlockLengths = true and lastSuperframeLen = 0.
C3_TooSmallResets ==
  (pc = "idle" /\ result = "tooSmall")
    => (resetBlockLengths /\ lastSuperframeLen = 0)

\* C4: with the bit reservoir, a packet whose frame-count field is 0 has no
\* frame decoded and nothing enqueued, and leaves lastSuperframeLen = 0,
\* lastBitoffset = 0 and resetBlockLengths = true.
C4_BadFrameCount ==
  [][(nPackets' # nPackets /\ result' = "badCount")
       => /\ useBitReservoir /\ newFrameCount' = -1
          /\ pc' = "idle"
          /\ audStream' = audStream
          /\ UNCHANGED <<curBlock, framePos, noiseIndex, blockLen>>
          /\ lastSuperframeLen' = 0 /\ lastBitoffset' = 0
          /\ resetBlockLengths']_vars

\* a packet with frame-count field 0 arrived while an overhang was pending
C4_Witness ==
  /\ pc = "idle" /\ result = "badCount" /\ entryLastLen > 0
  /\ lastSuperframeLen = 0 /\ lastBitoffset = 0 /\ resetBlockLengths

\* C5: a queuePacket call in which the decoding of a frame fails, the
\* overhang frame included, enqueues nothing.
C5_FailedFrameDrops ==
  (pc = "idle" /\ frameFailed) => result # "queued"

\* C6: with the bit reservoir, a queuePacket call in which a frame fails
\* leaves lastSuperframeLen = 0 and lastBitoffset = 0.
C6_FailureResetsOverhang ==
  (useBitReservoir /\ pc = "idle" /\ result = "frameError")
    => (lastSuperframeLen = 0 /\ lastBitoffset = 0)

\* C7: the first block of the packet after a dropped one is parsed with
\* resetBlockLengths = true and no overhang, with variable block lengths in
\* either mode.
C7_ParsedAfterDropAsReset ==
  (FirstBlockOfCall /\ prevDropped /\ useVariableBlockLen)
    => (resetBlockLengths /\ entryLastLen = 0)

\* C8: after every queuePacket call 0 <= lastBitoffset < 8.
C8_BitoffsetRange ==
  (pc = "idle" /\ nPackets > 0) => (0 <= lastBitoffset /\ lastBitoffset < 8)

\* C9: after every queuePacket call lastSuperframeLen <= 16384, and no write
\* goes past the end of _lastSuperframe.
C9_OverhangBounded ==
  /\ pc # "corrupt"
  /\ pc = "idle" => lastSuperframeLen <= kSuperframeSizeMax

\* C10: after every queuePacket call 0 <= noiseIndex < 8192, noise coding
\* enabled or not.
C10_NoiseIndexRange ==
  (pc = "idle" /\ nPackets > 0) => (0 <= noiseIndex /\ noiseIndex < kNoiseTabSize)

\* C11: with blockAlign > 0 a packet is truncated to its first blockAlign
\* bytes: no bit beyond them is read, and the overhang saved comes from
\* within them.
C11_TruncatedToBlockAlign ==
  /\ (pc = "block" /\ blockAlign > 0) => bitsPos <= blockAlign * 8
  /\ (pc = "idle" /\ result = "queued" /\ useBitReservoir /\ blockAlign > 0)
       => lastSuperframeLen <= blockAlign

\* C12: construction fails exactly when version is not 1 or 2, or sampleRate
\* is 0 or above 50000, or channels is 0 or above 2; otherwise it succeeds;
\* and after a failed construction there is no decoder to call.
C12_UnsupportedExactly ==
  /\ pc # "new"
       => (pc = "thrown"
             <=> \/ version \notin {1, 2}
                 \/ sampleRate = 0 \/ sampleRate > 50000
                 \/ channels = 0 \/ channels > 2)
  /\ pc = "thrown" => ~ENABLED Next /\ ~ENABLED NextCtor

\* a construction rejected for its channel count alone
C12_Witness ==
  pc = "thrown" /\ version = 2 /\ sampleRate = 50000 /\ channels = 3

\* C13: makeWMAStream does not raise an error to its caller: when the stream
\* cannot be created it returns NULL, so no call ends with the constructor's
\* exception leaving it.
C13_NeverRaises == pc # "thrown"

\* C14: for every accepted configuration frameLenBits is 9 up to 16000 Hz,
\* 10 up to 22050 Hz (up to 32000 Hz for version 1), 11 up to 48000 Hz, 12
\* up to 96000 Hz and 13 above, and frameLen = 2^frameLenBits.
C14_FrameLenBitsTable ==
  pc = "idle"
    => /\ (sampleRate <= 16000) => frameLenBits = 9
       /\ (sampleRate > 16000
             /\ (sampleRate <= 22050 \/ (sampleRate <= 32000 /\ version = 1)))
            => frameLenBits = 10
       /\ (sampleRate > 22050 /\ ~(sampleRate <= 32000 /\ version = 1)
             /\ sampleRate <= 48000)
            => frameLenBits = 11
       /\ (sampleRate > 48000 /\ sampleRate <= 96000) => frameLenBits = 12
       /\ (sampleRate > 96000) => frameLenBits = 13
       /\ frameLenBits \in 9 .. 13
       /\ frameLen = CASE frameLenBits = 9 -> 512
                       [] frameLenBits = 10 -> 1024
                       [] frameLenBits = 11 -> 2048
                       [] frameLenBits = 12 -> 4096
                       [] frameLenBits = 13 -> 8192

\* a version-1 stream at 32000 Hz, where the versions differ
C14_Witness ==
  pc = "idle" /\ version = 1 /\ sampleRate = 32000 /\ frameLenBits = 10
    /\ frameLen = 1024

\* C15: blockSizeCount is 1 without variable block lengths and otherwise
\* min(((flags >> 3) & 3) + 1 + (2 if bitRate / channels >= 32000),
\* frameLenBits - 7) + 1; so 1 <= blockSizeCount <= frameLenBits - 6 and the
\* smallest block length frameLen >> (blockSizeCount - 1) is at least 128.
C15_BlockSizeCount ==
  pc = "idle"
    => LET flags == getFlags(givenArgs)
           count == ((flags \div 8) % 4) + 1
                      + (IF bitRate \div channels >= 32000 THEN 2 ELSE 0)
           clamped == IF count <= frameLenBits - 7 THEN count
                      ELSE frameLenBits - 7
       IN /\ blockSizeCount = IF useVariableBlockLen THEN clamped + 1 ELSE 1
          /\ 1 <= blockSizeCount
          /\ blockSizeCount <= frameLenBits - 6
          /\ frameLen \div Pow2(blockSizeCount - 1) >= 128

\* a stream whose count is clamped: six sizes asked for, three at 512 samples
C15_Witness ==
  /\ pc = "idle" /\ useVariableBlockLen
  /\ bitRate \div channels >= 32000 /\ (getFlags(givenArgs) \div 8) % 4 = 3
  /\ frameLenBits = 9 /\ blockSizeCount = 3

\* the u16 at offset 4 of a version-2 stream's extra data is 0x000D (which
\* has the variable-block flag set)
Has000D == version = 2 /\ extraData.size >= 6 /\ extraData.u16at4 = 13

\* what C16 promises of a stream: fixed block lengths, one block size, and
\* every block of length frameLen with no block-length bits read
FixedBlocksOnly ==
  /\ ~useVariableBlockLen /\ blockSizeCount = 1
  /\ blockOutcome \in {"fail", "more", "done"} => blockLen = frameLen
  /\ pc = "block"
       => \A avail \in {0, dataSize * 8 - bitsPos}, rp, rc, rn \in 0 .. 3 :
            LET e == evalBlockLength(avail, rp, rc, rn)
            IN e.st = "ok" /\ e.used = 0 /\ e.blockLen = frameLen

\* C16 as stated: for a version-2 stream whose extra-data u16 at offset 4 is
\* 0x000D, useVariableBlockLen is forced off, blockSizeCount = 1, and every
\* block has blockLen = frameLen with no block-length bits read.
C16_QuirkAnySize == Has000D => FixedBlocksOnly

\* C16, amended: the same for a version-2 stream with at least 8 bytes of
\* extra data whose u16 at offset 4 is 0x000D.
C16_QuirkForcesFixed == (Has000D /\ extraData.size >= 8) => FixedBlocksOnly

\* a second packet of such a stream has been decoded
C16_Witness ==
  /\ Has000D /\ extraData.size >= 8
  /\ pc = "idle" /\ nPackets = 2 /\ result = "queued" /\ blockOutcome = "done"
  /\ blockLen = frameLen /\ audStream = <<frameLen, frameLen>>

\* C17: for every block that passes evalBlockLength, framePos + blockLen <=
\* frameLen; framePos grows by blockLen per decoded block; and when a frame
\* is complete framePos = frameLen exactly and frameLen samples per channel
\* have been written to the output, no samples being written otherwise.
C17_FramePos ==
  [][pc = "block"
       => /\ blockOutcome' \in {"fail", "more", "done"}
               => framePos + blockLen' <= frameLen
          /\ blockOutcome' = "more"
               => /\ framePos' = framePos + blockLen'
                  /\ framePos' < frameLen
          /\ blockOutcome' = "done"
               => /\ framePos + blockLen' = frameLen
                  /\ framePos' \in {0, frameLen}
                  /\ pc' = "idle" => framePos' = frameLen
                  /\ pcmWritten' = pcmWritten + channels * frameLen
          /\ blockOutcome' # "done" => pcmWritten' = pcmWritten]_vars

\* a frame of several blocks has been completed and enqueued
C17_Witness ==
  /\ pc = "idle" /\ result = "queued" /\ blockOutcome = "done"
  /\ curBlock >= 2 /\ blockLen < frameLen /\ framePos = frameLen
  /\ pcmWritten = channels * frameLen

\* C18 as stated: the butterfly is an involution, two calls give back the
\* original pair of vectors.
C18_Involution == nButterfly = 2 => coefs = coefs0

\* C18, amended: one call gives the element-wise sums and differences, and
\* two calls give twice the original pair.
C18_TwiceDoubles ==
  LET n == Len(coefs0[1])
  IN /\ nButterfly = 1
          => coefs = << [j \in 1 .. n |-> coefs0[1][j] + coefs0[2][j]],
                        [j \in 1 .. n |-> coefs0[1][j] - coefs0[2][j]] >>
     /\ nButterfly = 2
          => coefs = << [j \in 1 .. n |-> 2 * coefs0[1][j]],
                        [j \in 1 .. n |-> 2 * coefs0[2][j]] >>

\* the butterfly has been applied twice to a pair that is not all zero
C18_Witness ==
  /\ nButterfly = 2
  /\ coefs0 = << <<1, -1>>, <<1, 0>> >>
  /\ coefs = << <<2, -2>>, <<2, 0>> >>

\* C19 as stated: after construction highBandStart[k] <= coefsEnd[k] for
\* every block size k, with noise coding on or off.
C19_HighBandBelowCoefsEnd ==
  pc = "idle" => \A k \in DOMAIN coefsEnd : highBandStart[k] <= coefsEnd[k]

\* the sum of a sequence of band sizes
RECURSIVE SumSeq(_)
SumSeq(q) == IF q = << >> THEN 0 ELSE Head(q) + SumSeq(Tail(q))

\* C20 as stated: after construction every row k of exponentBands has been
\* written with the band sizes of block length frameLen >> k, and the sizes
\* of a row sum to at most frameLen >> k.
C20_ExponentBandsPerBlockSize ==
  pc = "idle" =>
    \A k \in DOMAIN exponentBands :
      LET row == exponentBands[k]
          len == frameLen \div Pow2(k)
      IN /\ row.from # "unwritten"
         /\ row.from = "computed" =>
              /\ row.bands = IF version = 1
                             THEN bandsV1(len, sampleRate, 1, 0)
                             ELSE bandsV2(len, sampleRate, 1, 0)
              /\ SumSeq(row.bands) <= len

\* ------------------------------------------------------------------------
\* The block-length register
\* ------------------------------------------------------------------------
\* width of a block-length index, line 1034
IndexBits == intLog2(blockSizeCount - 1) + 1

\* the bits left in the stream the next decodeBlock call reads from
AvailNow ==
  IF src = "last" THEN lastSuperframeLen * 8 - lastBitsPos
  ELSE dataSize * 8 - bitsPos

\* C21: with variable block lengths, whatever indices the next
\* evalBlockLength call reads, it does not succeed when one of them is
\* >= blockSizeCount, and when it succeeds the block size index
\* frameLenBits - blockLenBits asserted by decodeBlock is in
\* 0 .. blockSizeCount - 1; this in every state a call can be in, also after
\* an earlier call stopped in the middle of evalBlockLength.
C21_BlockSizeInRange ==
  (pc = "block" /\ useVariableBlockLen) =>
    \A rp \in RawIndex, rc \in RawIndex, rn \in RawIndex :
      LET e == evalBlockLength(AvailNow, rp, rc, rn)
          badRead == \/ resetBlockLengths /\ rp >= blockSizeCount
                     \/ resetBlockLengths /\ rc >= blockSizeCount
                     \/ rn >= blockSizeCount
      IN /\ badRead => e.st # "ok"
         /\ e.st = "ok" => /\ 0 <= frameLenBits - e.cur
                           /\ frameLenBits - e.cur < blockSizeCount

\* the call before this one read prev and cur and then stopped at the next
\* index: the register holds them, next is still the constructor's 0, and
\* the reset flag is cleared
C21_Witness ==
  /\ pc = "block" /\ useVariableBlockLen
  /\ prevDropped /\ ~resetBlockLengths
  /\ blockLenBits > 0 /\ nextBlockLenBits = 0

\* C22: with variable block lengths and resetBlockLengths false, an
\* evalBlockLength call moves blockLenBits to prevBlockLenBits and
\* nextBlockLenBits to blockLenBits and reads the next index only (IndexBits
\* bits), so a block that is decoded has the length announced as next.
C22_ShiftRegister ==
  [][(pc = "block" /\ useVariableBlockLen /\ ~resetBlockLengths) =>
       /\ prevBlockLenBits' = blockLenBits
       /\ blockLenBits' = nextBlockLenBits
       /\ lengthBitsUsed' \in {0, IndexBits}
       /\ blockOutcome' \in {"more", "done", "fail", "badLength"}
            => lengthBitsUsed' = IndexBits
       /\ blockOutcome' \in {"more", "done"}
            => blockLen' = Pow2(nextBlockLenBits)]_vars

\* the second block of a frame was decoded with a length other than the
\* first block's
C22_Witness ==
  /\ useVariableBlockLen /\ blockOutcome = "more" /\ curBlock = 2
  /\ lengthBitsUsed = IndexBits
  /\ prevBlockLenBits # blockLenBits

\* C23: with fixed block lengths every evalBlockLength call stores
\* frameLenBits in all three members and reads no bits, and a frame that is
\* decoded is one block of frameLen samples.
C23_FixedBlocks ==
  [][(pc = "block" /\ ~useVariableBlockLen) =>
       /\ prevBlockLenBits' = frameLenBits
       /\ blockLenBits' = frameLenBits
       /\ nextBlockLenBits' = frameLenBits
       /\ lengthBitsUsed' = 0
       /\ blockOutcome' # "more"
       /\ blockOutcome' = "done" => framePos = 0 /\ blockLen' = frameLen]_vars

\* a packet of a fixed-block stream was decoded and queued
C23_Witness ==
  /\ ~useVariableBlockLen /\ blockOutcome = "done" /\ result = "queued"
  /\ blockLen = frameLen /\ blockLenBits = frameLenBits

\* a call of a bit-reservoir stream with variable block lengths that has
\* frames of its own to decode
ReservoirCall ==
  useBitReservoir /\ useVariableBlockLen /\ pc = "block" /\ newFrameCount >= 1

\* the next decodeBlock call decodes the first block of the packet's first
\* frame
FirstNewBlock == src = "data" /\ i = 0 /\ curBlock = 0

\* C24 as stated: in such a call the first block of the first new frame
\* reads prev and cur afresh, every later block of the packet shifts, and
\* the overhang frame shifts the register the previous packet left.
C24_OverhangContinuesRegister ==
  ReservoirCall =>
    /\ FirstNewBlock => resetBlockLengths
    /\ (src = "data" /\ ~FirstNewBlock) => ~resetBlockLengths
    /\ src = "last" => ~resetBlockLengths

\* C24, amended: the first block of the first new frame reads prev, cur and
\* next afresh, every later block of the packet reads next only, and the
\* overhang frame starts from the register and the reset flag exactly as the
\* previous call left them (so it shifts when the flag is clear and reads
\* afresh when the flag was left set); only its blocks after the first are
\* sure to shift.
C24_ResetBeforeNewFrames ==
  [][/\ ReservoirCall =>
          /\ FirstNewBlock =>
               /\ resetBlockLengths
               /\ blockOutcome' \in {"more", "done", "fail"}
                    => lengthBitsUsed' = 3 * IndexBits
          /\ (~FirstNewBlock /\ (src = "data" \/ curBlock > 0)) =>
               /\ ~resetBlockLengths
               /\ blockOutcome' \in {"more", "done", "fail"}
                    => lengthBitsUsed' = IndexBits
     /\ (pc = "idle" /\ pc' = "block" /\ src' = "last") => UNCHANGED register
    ]_vars

\* after an overhang frame, the first block of the packet's first frame was
\* decoded from indices read afresh
C24_Witness ==
  /\ useBitReservoir /\ useVariableBlockLen /\ newFrameCount >= 1
  /\ entryLastLen > 0 /\ src = "data" /\ i = 0 /\ curBlock = 1
  /\ blockOutcome = "more" /\ lengthBitsUsed = 3 * IndexBits

\* C26: in bit-reservoir mode the first frame of the packet starts at bit
\* 4 + 4 + (byteOffsetBits + 3) + bitOffset of the packet, whether the
\* bitOffset bits were appended to a pending overhang (the position is then
\* reached before the overhang frame is decoded and kept during it) or
\* skipped.
C26_FirstFramePosition ==
  (useBitReservoir /\ pc = "block" /\ (src = "last" \/ FirstNewBlock)) =>
    bitsPos = 4 + 4 + (byteOffsetBits + 3) + bitOffset

\* the overhang frame is done and the first frame of the packet is next,
\* after 5 bits were appended to the overhang
C26_Witness ==
  /\ useBitReservoir /\ pc = "block" /\ FirstNewBlock
  /\ entryLastLen > 0 /\ bitOffset = 5

\* ------------------------------------------------------------------------
\* The bit reservoir
\* ------------------------------------------------------------------------
\* the last tailBits bits of the packet that left the overhang
TrailingBits ==
  [k \in 1 .. tailBits |-> PrevBit(8 * PrevPacketBytes - tailBits + k - 1)]

\* the first bitOffset bits after the header of the packet that completes it
LeadingBits == [j \in 1 .. bitOffset |-> CurBit(j - 1)]

\* C25 as stated: the overhang frame is decoded from exactly the trailing
\* remainingBits bits of the previous packet followed by the first bitOffset
\* bits after the header of this one.
C25_RoundTrip ==
  (pc = "joined" /\ tailBits > 0) => overhangStream = TrailingBits \o LeadingBits

\* C25, amended: the stream begins with those bits, in order and complete,
\* and ends with the zero bits that fill the last appended byte, (8 -
\* bitOffset mod 8) mod 8 of them.
C25_RoundTripPadded ==
  (pc = "joined" /\ tailBits > 0) =>
    overhangStream = TrailingBits \o LeadingBits
                       \o [k \in 1 .. ((8 - (bitOffset % 8)) % 8) |-> ZeroBit]

\* two whole bytes were left, and 13 bits complete them
C25_Witness ==
  /\ pc = "joined" /\ tailBits = 16 /\ bitOffset = 13
  /\ Len(overhangStream) = 32

\* C27 as stated: after the save, with remainingBits > 0 the overhang is
\* ceil(remainingBits / 8) bytes, the last bytes of the packet, and
\* lastBitoffset is (8 - remainingBits mod 8) mod 8; with remainingBits = 0
\* both are 0.
C27_SavedOverhang ==
  pc = "saved" =>
    IF tailBits > 0
      THEN /\ lastSuperframeLen = (tailBits + 7) \div 8
           /\ lastBitoffset = (8 - (tailBits % 8)) % 8
           /\ Len(lastSuperframe) = lastSuperframeLen
           /\ \A k \in 1 .. lastSuperframeLen : \A b \in 1 .. 8 :
                lastSuperframe[k][b] =
                  PrevBit(8 * (PrevPacketBytes - lastSuperframeLen + k - 1) + b - 1)
      ELSE lastSuperframeLen = 0 /\ lastBitoffset = 0

\* ------------------------------------------------------------------------
\* Exponents
\* ------------------------------------------------------------------------
\* C28: a decodeExponents call that returns true reads the reuse flag iff
\* the block is shorter than the frame; it decodes the exponents of exactly
\* the present channels, and sets their exponentsBSize to the block's size
\* index, iff the block is as long as the frame or the flag is 1; the
\* exponents, maxExponent and exponentsBSize of every other channel, and of
\* every channel when the flag is 0, are left as they were.
C28_ExponentsReuse ==
  [][(pc = "exponents" /\ expResult') =>
       LET redo == blockLenBits' = frameLenBits \/ expFlag' = 1
       IN /\ (expFlag' = -1) <=> (blockLenBits' = frameLenBits)
          /\ \A c \in Channels :
               IF redo /\ hasChannel'[c]
                 THEN /\ exponentsGen'[c] = exponentsGen[c] + 1
                      /\ maxExponentGen'[c] = maxExponentGen[c] + 1
                      /\ exponentsBSize'[c] = frameLenBits - blockLenBits'
                 ELSE /\ exponentsGen'[c] = exponentsGen[c]
                      /\ maxExponentGen'[c] = maxExponentGen[c]
                      /\ exponentsBSize'[c] = exponentsBSize[c]]_vars

\* a short block with the flag set and only the second channel present,
\* after a short block that kept the exponents
C28_Witness ==
  /\ pc = "exponents" /\ expCalls = 2 /\ expResult
  /\ channels = 2 /\ expFlag = 1 /\ blockLenBits = frameLenBits - 2
  /\ hasChannel = [c \in Channels |-> c = 1]
  /\ exponentsGen = [c \in Channels |-> IF c = 1 THEN 1 ELSE 0]
  /\ exponentsBSize[1] = 2 /\ exponentsBSize[0] = -1

\* C29 as stated: lastExp starts at 36 for version 2 and at the 5-bit field
\* plus 10 for version 1, and after each symbol the decoder has failed with
\* an out-of-range exponent exactly when lastExp is outside -60 .. 83.
C29_ExponentRange ==
  /\ (expStatus = "run" /\ expBand = 0) => (version = 2 /\ lastExp = 36)
  /\ (expStatus = "run" /\ version = 1 /\ expBand = 1) => lastExp \in 10 .. 41
  /\ expStatus = "run" => lastExp \in -60 .. 83
  /\ expStatus = "range" => lastExp \notin -60 .. 83

C31_WritesInsideBlock ==
  pc = "runlevel" =>
    /\ rlWrite # -1 => (rlWrite >= 0 /\ rlWrite < rlBlockLen)
    /\ rlStatus = "run" => (rlOffset < MaxRunCoefs /\ rlResult = "pending")
    /\ rlStatus = "end" => (rlOffset >= MaxRunCoefs /\ rlResult = "true")
    /\ rlStatus = "eob" => (rlOffset < MaxRunCoefs /\ rlResult = "true")
    /\ rlResult # "false"

\* a run carried offset past numCoefs and past blockLen: the store wrapped
\* round to a lower index and the call returned true
C31_Witness ==
  /\ pc = "runlevel" /\ rlStatus = "end" /\ rlResult = "true"
  /\ rlOffset > MaxRunCoefs /\ rlOffset - 1 >= rlBlockLen
  /\ rlWrite = rlOffset - 1 - rlBlockLen


\* C32: in a version-1 stream with two channels, after a channel's
\* spectral coefficients the bit position is moved to the next byte
\* boundary: the position afterwards is the smallest multiple of 8 that is
\* not below the position before (the same position when it was aligned),
\* and never a smaller one.
C32_AlignsToNextByte ==
  (pc = "runlevel" /\ version = 1 /\ channels >= 2
     /\ rlStatus \in {"aligned", "thrown"}) =>
    /\ rlStatus = "aligned"
    /\ rlPosAfter = 8 * ((rlPosBefore + 7) \div 8)
    /\ rlPosAfter >= rlPosBefore


\* C33: every configuration the constructor accepts has
\* frameLen <= kBlockSizeMax and blockSizeCount <= kBlockNBSizes, so that
\* the arrays of those sizes are indexed inside their bounds; this for every
\* sample rate in 1 .. 50000.
C33_SizesWithinArrays ==
  (pc = "idle" /\ sampleRate > 0 /\ sampleRate <= 50000) =>
    /\ frameLen <= kBlockSizeMax
    /\ blockSizeCount <= kBlockNBSizes


\* C34: whenever window runs, the indices of the window table it uses,
\* frameLenBits - blockLenBits and, where the neighbour is the shorter
\* block, frameLenBits - prevBlockLenBits and
\* frameLenBits - nextBlockLenBits, are in 0 .. blockSizeCount - 1; this
\* after any sequence of packets, packets that failed inside
\* evalBlockLength after resetBlockLengths was cleared included.
C34_WindowIndexInRange ==
  windowRan =>
    /\ frameLenBits - blockLenBits \in windowTables
    /\ windowLeftIndex \in windowTables
    /\ windowRightIndex \in windowTables


\* the last decodeBlock call got past evalBlockLength
BlockPassed == blockOutcome \in {"more", "done", "fail"}

\* C35: for every block that passes evalBlockLength, the range of
\* _frameOut that the block is windowed and added into, from
\* frameLen/2 + framePos - blockLen/2 up to (not including)
\* frameLen/2 + framePos + 3 * blockLen/2, lies inside 0 .. 2 * frameLen - 1.
C35_OverlapInsideFrameOut ==
  [][(pc = "block" /\ BlockPassed') =>
       /\ overlapIndex(framePos, blockLen') >= 0
       /\ overlapEnd(framePos, blockLen') <= 2 * frameLen
       /\ overlapEnd(framePos, blockLen')
            = (frameLen \div 2) + framePos + 3 * (blockLen' \div 2)]_vars

\* the second block of a frame, a quarter of the frame long after one of
\* half the frame, has been windowed and added
C35_Witness ==
  /\ windowRan /\ blockOutcome = "more" /\ curBlock = 2
  /\ 4 * blockLen = frameLen /\ framePos = 3 * blockLen


\* C36: whenever calculateMDCTCoefficients synthesises a present channel c,
\* exponents[c], maxExponent[c] and exponentsBSize[c] have been written by
\* an exponent decode for channel c in this block or an earlier one, and
\* every exponent index (j << bSize) >> exponentsBSize[c] with j < blockLen
\* is below frameLen >> exponentsBSize[c].
C36_ExponentsWritten ==
  \A c \in Channels :
    synthesised(c) =>
      /\ exponentsGen[c] > 0
      /\ maxExponentGen[c] > 0
      /\ exponentsBSize[c] \in 0 .. blockSizeCount - 1
      /\ \A j \in {0, blockLen - 1} :
           exponentIndex(j, frameLenBits - blockLenBits, exponentsBSize[c])
             < frameLen \div Pow2(exponentsBSize[c])


\* C37: of two consecutive blocks n and n + 1 with no block-length reset
\* between them, block n + 1 multiplies by the rising window, and adds
\* into, exactly the range of _frameOut that block n wrote through the
\* falling window, and that range is min(blockLen of n, blockLen of n + 1)
\* floats long.
C37_OverlapRangesCoincide ==
  [][(/\ pc = "block" /\ fallLen > 0
      /\ ~(useVariableBlockLen /\ resetBlockLengths)
      /\ windowRan') =>
       /\ windowRiseStart(framePos, prevBlockLenBits', blockLenBits') = fallStart
       /\ windowRiseLen(prevBlockLenBits', blockLenBits') = fallLen
       /\ fallLen = MIN(blockLen, blockLen')]_vars

\* a block of a quarter of the frame has been windowed straight after
\* one of half the frame, in the same frame
C37_Witness ==
  /\ windowRan /\ blockOutcome = "more" /\ curBlock = 2
  /\ 4 * blockLen = frameLen /\ framePos = 3 * blockLen
  /\ prevBlockLenBits = blockLenBits + 1
  /\ fallLen = blockLen /\ fallStart = (frameLen \div 2) + framePos - (blockLen \div 2)


\* the last decodeBlock call returned -1 or ran off the stream
BlockFailed == blockOutcome \in {"badLength", "fail", "eos"}

\* C38: the block loop of decodeFrame terminates: a decodeBlock call that
\* succeeds moves framePos on by blockLen, at least
\* frameLen >> (blockSizeCount - 1); a call that fails ends the loop; and
\* no frame takes more than 2^(blockSizeCount - 1) decodeBlock calls.
C38_BlockLoopTerminates ==
  [][pc = "block" =>
       /\ curBlock + 1 <= Pow2(blockSizeCount - 1)
       /\ windowRan' =>
            /\ blockLen' >= frameLen \div Pow2(blockSizeCount - 1)
            /\ blockOutcome' = "more" =>
                 (framePos' = framePos + blockLen' /\ framePos' < frameLen
                    /\ curBlock' = curBlock + 1 /\ pc' = "block")
            /\ blockOutcome' = "done" => framePos + blockLen' = frameLen
       /\ (BlockFailed' \/ blockOutcome' = "done") =>
            (pc' # "block" \/ (curBlock' = 0 /\ framePos' = 0))]_vars

\* a frame has been decoded in 2^(blockSizeCount - 1) blocks, each of the
\* smallest size
C38_Witness ==
  /\ blockOutcome = "done" /\ blockSizeCount = 3
  /\ curBlock = Pow2(blockSizeCount - 1)
  /\ blockLen = frameLen \div Pow2(blockSizeCount - 1)


\* ------------------------------------------------------------------------
\* Streams without bit reservoir
\* ------------------------------------------------------------------------
\* a stream without bit reservoir and with variable block lengths
SingleFrameStream == ~useBitReservoir /\ useVariableBlockLen

\* C39 as stated: without bit reservoir and with variable block lengths,
\* resetBlockLengths is true only before the very first block after
\* construction and no packet sets it again; the first block of a later
\* packet takes prev and cur by shifting the register as the last block
\* evaluated left it; only the first block of the first packet reads prev
\* and cur from the stream.
C39_FirstPacketReadsRegister ==
  [][SingleFrameStream =>
       /\ resetBlockLengths' => resetBlockLengths
       /\ pc = "block" => ~resetBlockLengths'
       /\ pc = "idle" => UNCHANGED register
       /\ (pc = "block" /\ ~resetBlockLengths) =>
            (prevBlockLenBits' = blockLenBits /\ blockLenBits' = nextBlockLenBits)
       /\ (pc = "block" /\ resetBlockLengths) => (nPackets = 1 /\ curBlock = 0)]_vars

\* C39, amended: without bit reservoir and with variable block lengths, no
\* queuePacket call sets resetBlockLengths and none changes the register
\* on entry, whether the packet is too small, fails or succeeds; every
\* evalBlockLength call leaves resetBlockLengths false.  So it is true from
\* construction up to the first decodeBlock call, which is the first block
\* of the first packet that is not too small, and that call alone reads
\* prev and cur from the stream; every later block, the first of a packet
\* included, takes prev and cur by shifting the register as the last
\* evaluated block left it.
C39_FirstBlockReadsRegister ==
  [][SingleFrameStream =>
       /\ resetBlockLengths' => resetBlockLengths
       /\ pc = "block" => ~resetBlockLengths'
       /\ pc = "idle" => UNCHANGED register
       /\ (pc = "idle" /\ result' = "tooSmall") => pc' = "idle"
       /\ (pc = "block" /\ ~resetBlockLengths) =>
            (prevBlockLenBits' = blockLenBits /\ blockLenBits' = nextBlockLenBits)
       /\ (pc = "block" /\ resetBlockLengths) =>
            (curBlock = 0 /\ blockLen = 0 /\ blockLenBits = 0
               /\ prevBlockLenBits = 0 /\ nextBlockLenBits = 0 /\ fallLen = 0)]_vars

\* the first block of the third packet was decoded with prev and cur
\* shifted from the register as the second packet's frame left it
C39_Witness ==
  /\ SingleFrameStream /\ nPackets = 3 /\ curBlock = 1 /\ windowRan
  /\ ~regWritten /\ ~prevDropped /\ ~resetBlockLengths
  /\ lengthBitsUsed = IndexBits
  /\ prevBlockLenBits # blockLenBits

====
